---- MODULE Spec2Model ----
(***************************************************************************)
(* A model of the osu! replay visualizer: the beatmap model, the replay    *)
(* decoder, the trajectory synthesizers and sampler, and the per-frame     *)
(* judgment state machine of main.py.                                      *)
(*                                                                         *)
(* Python floats are modelled as exact rationals [n |-> numerator,         *)
(* d |-> denominator > 0] in lowest terms; Python ints as TLA+ integers.   *)
(* A Python exception that ends a function is the string in the `raised`   *)
(* field of its result ("" when it returned).                              *)
(***************************************************************************)
EXTENDS Integers, Sequences, FiniteSets, TLC

(***************************************************************************)
(* Arithmetic                                                              *)
(***************************************************************************)
Abs(a) == IF a < 0 THEN -a ELSE a

RECURSIVE GCD(_, _)
GCD(a, b) == IF b = 0 THEN a ELSE GCD(b, a % b)

\* The rational n/d (d # 0) in lowest terms with a positive denominator.
Rat(n, d) ==
    LET s == IF d < 0 THEN -1 ELSE 1
        g == GCD(Abs(n), Abs(d))
    IN  [n |-> (s * n) \div g, d |-> (s * d) \div g]

RInt(i) == [n |-> i, d |-> 1]

\* a + b over the least common denominator.
RAdd(a, b) ==
    LET g == GCD(a.d, b.d)
    IN  Rat(a.n * (b.d \div g) + b.n * (a.d \div g), (a.d \div g) * b.d)

RNeg(a) == [n |-> -a.n, d |-> a.d]

RSub(a, b) == RAdd(a, RNeg(b))

RMul(a, b) ==
    LET g1 == GCD(Abs(a.n), b.d)
        g2 == GCD(Abs(b.n), a.d)
    IN  Rat((a.n \div g1) * (b.n \div g2), (a.d \div g2) * (b.d \div g1))

\* a / b for b # 0 (the callers test for zero where Python would raise).
RDiv(a, b) == RMul(a, Rat(b.d, b.n))

RLe(a, b) == a.n * b.d <= b.n * a.d

RLt(a, b) == a.n * b.d < b.n * a.d

\* Python's int() of a float: truncation toward zero.
RTrunc(a) == IF a.n >= 0 THEN a.n \div a.d ELSE -((-a.n) \div a.d)

RMax(a, b) == IF RLe(a, b) THEN b ELSE a

RMin(a, b) == IF RLe(a, b) THEN a ELSE b

\* Python's & on non-negative ints.
RECURSIVE BitAnd(_, _)
BitAnd(a, b) ==
    IF a = 0 \/ b = 0 THEN 0
    ELSE (a % 2) * (b % 2) + 2 * BitAnd(a \div 2, b \div 2)

\* current_key & (~previous_key): the bits of a that are not bits of b.
BitAndNot(a, b) == a - BitAnd(a, b)

(***************************************************************************)
(* Program constants                                                       *)
(***************************************************************************)
OSU_PLAYFIELD_WIDTH == 512
OSU_PLAYFIELD_HEIGHT == 384
\* osrparse.Mod.HardRock and the osrparse.Key bits M1 | M2 | K1 | K2.
ModHardRock == 16
KeyK1 == 4
KeyMask == 15
\* initialize_game_state: OFFSET subtracted from a replay's event times.
OFFSET == 300
\* handle_input_and_hits: an object stays visible this long after its time.
FadeOut == 300
\* generate_auto_play_cursor_data: lead of a circle's event, slider spacing.
AutoLead == 36
AutoInterval == 10
\* generate_dancer_cursor_data.
DancerLeadIn == 1000
DesiredPointInterval == 2
KeyHoldDuration == 20
SliderReleaseDelay == 20
AngleThreshold == 30
\* key_callback: one press moves the audio offset by this many ms.
OffsetStep == 10
\* get_timing_at: the beat length when no uninherited point applies.
DefaultBeatLength == 500

(***************************************************************************)
(* Records                                                                 *)
(***************************************************************************)
\* A cursor event {'time', 'x', 'y', 'keys'}.
Event(time, x, y, keys) == [time |-> time, x |-> x, y |-> y, keys |-> keys]

\* A hit object as parse_hit_object builds it.  Python's dict has the slider
\* keys only for a slider and 'end_time' only for a spinner; here every
\* object carries every field, unused ones at their empty value.
Circle(x, y, time) ==
    [object_name |-> "circle", x |-> x, y |-> y, time |-> time,
     slider_type |-> "", curve_points |-> << >>, slides |-> 0, length |-> RInt(0),
     slider_duration |-> RInt(0), end_time |-> 0]

Slider(x, y, time, slider_type, curve_points, slides, length, slider_duration) ==
    [object_name |-> "slider", x |-> x, y |-> y, time |-> time,
     slider_type |-> slider_type, curve_points |-> curve_points, slides |-> slides,
     length |-> length, slider_duration |-> slider_duration, end_time |-> 0]

Spinner(x, y, time, end_time) ==
    [object_name |-> "spinner", x |-> x, y |-> y, time |-> time,
     slider_type |-> "", curve_points |-> << >>, slides |-> 0, length |-> RInt(0),
     slider_duration |-> RInt(0), end_time |-> end_time]

\* The dict parse_hit_object returns for a line whose type has none of the
\* circle, slider and spinner bits: it has no 'object_name' key, which is
\* the empty name here; reading obj['object_name'] raises KeyError.
Untyped(x, y, time) ==
    [object_name |-> "", x |-> x, y |-> y, time |-> time,
     slider_type |-> "", curve_points |-> << >>, slides |-> 0, length |-> RInt(0),
     slider_duration |-> RInt(0), end_time |-> 0]

Point(x, y) == [x |-> x, y |-> y]

(***************************************************************************)
(* TrajectorySampler: interpolate_cursor_position                          *)
(***************************************************************************)
Returned(x, y, keys) == [raised |-> "", x |-> x, y |-> y, keys |-> keys]

Raised(e) == [raised |-> e, x |-> RInt(0), y |-> RInt(0), keys |-> 0]

\* sum(values) / len(values) for the three values it is called with.
smoothing_filter(values) ==
    RDiv(RAdd(RAdd(values[1], values[2]), values[3]), RInt(3))

\* Bracketing with the earlier event's time excluded.
BracketingPairs_open(cursor_data, current_time) ==
    {i \in 1..(Len(cursor_data) - 1) :
        /\ RLt(cursor_data[i].time, current_time)
        /\ RLe(current_time, cursor_data[i + 1].time)}

\* The pairs (cursor_data[i], cursor_data[i + 1]), by i (1-based), whose
\* times bracket current_time.
BracketingPairs(cursor_data, current_time) ==
    {i \in 1..(Len(cursor_data) - 1) :
        /\ RLe(cursor_data[i].time, current_time)
        /\ RLe(current_time, cursor_data[i + 1].time)}

\* The loop body taking the keys of the earlier event.
InterpolateBetween_keys_a(event_a, event_b, current_time, apply_smoothing) ==
    IF RSub(event_b.time, event_a.time).n = 0
    THEN Raised("ZeroDivisionError")
    ELSE LET t == RDiv(RSub(current_time, event_a.time),
                       RSub(event_b.time, event_a.time))
             x == RAdd(event_a.x, RMul(t, RSub(event_b.x, event_a.x)))
             y == RAdd(event_a.y, RMul(t, RSub(event_b.y, event_a.y)))
         IN  IF apply_smoothing
             THEN Returned(smoothing_filter(<<event_a.x, x, event_b.x>>),
                           smoothing_filter(<<event_a.y, y, event_b.y>>),
                           event_a.keys)
             ELSE Returned(x, y, event_a.keys)

\* The body of the loop for the pair the scan stops at.
InterpolateBetween(event_a, event_b, current_time, apply_smoothing) ==
    IF RSub(event_b.time, event_a.time).n = 0
    THEN Raised("ZeroDivisionError")
    ELSE LET t == RDiv(RSub(current_time, event_a.time),
                       RSub(event_b.time, event_a.time))
             x == RAdd(event_a.x, RMul(t, RSub(event_b.x, event_a.x)))
             y == RAdd(event_a.y, RMul(t, RSub(event_b.y, event_a.y)))
         IN  IF apply_smoothing
             THEN Returned(smoothing_filter(<<event_a.x, x, event_b.x>>),
                           smoothing_filter(<<event_a.y, y, event_b.y>>),
                           event_b.keys)
             ELSE Returned(x, y, event_b.keys)

\* The scan runs over the pairs in order and returns at the first one that
\* brackets current_time; with none it falls through to the last event.
\* An empty list fails at cursor_data[-1].
interpolate_cursor_position(cursor_data, current_time, apply_smoothing) ==
    IF Len(cursor_data) = 0
    THEN Raised("IndexError")
    ELSE LET pairs == BracketingPairs(cursor_data, current_time) IN
         IF pairs = {}
         THEN LET last_event == cursor_data[Len(cursor_data)]
              IN  Returned(last_event.x, last_event.y, last_event.keys)
         ELSE LET i == CHOOSE k \in pairs : \A j \in pairs : k <= j
              IN  InterpolateBetween(cursor_data[i], cursor_data[i + 1], current_time,
                                     apply_smoothing)

(***************************************************************************)
(* Replay decoding: ReplayData.get_cursor_positions                        *)
(***************************************************************************)
\* A replay frame of osrparse: time_delta, x, y, keys.
Frame(time_delta, x, y, keys) ==
    [time_delta |-> time_delta, x |-> x, y |-> y, keys |-> keys]

\* The loop adding every delta to the running time, emitting for positive
\* deltas only.
RECURSIVE DecodeFrom_accumulating(_, _, _, _, _)
DecodeFrom_accumulating(replay_events, mods, i, total_time, cursor_data) ==
    IF i > Len(replay_events) THEN cursor_data
    ELSE LET event == replay_events[i]
             new_total == total_time + event.time_delta
             y == IF BitAnd(mods, ModHardRock) # 0
                  THEN RSub(RInt(OSU_PLAYFIELD_HEIGHT), event.y)
                  ELSE event.y
         IN  IF event.time_delta <= 0
             THEN DecodeFrom_accumulating(replay_events, mods, i + 1, new_total, cursor_data)
             ELSE DecodeFrom_accumulating(replay_events, mods, i + 1, new_total,
                                          Append(cursor_data,
                                                 Event(RInt(new_total), event.x, y,
                                                       event.keys)))

\* The loop of get_cursor_positions from frame i on, with the running
\* total_time and the cursor_data built so far.
RECURSIVE DecodeFrom(_, _, _, _, _)
DecodeFrom(replay_events, mods, i, total_time, cursor_data) ==
    IF i > Len(replay_events) THEN cursor_data
    ELSE LET event == replay_events[i] IN
         IF event.time_delta <= 0
         THEN DecodeFrom(replay_events, mods, i + 1, total_time, cursor_data)
         ELSE LET new_total == total_time + event.time_delta
                  y == IF BitAnd(mods, ModHardRock) # 0
                       THEN RSub(RInt(OSU_PLAYFIELD_HEIGHT), event.y)
                       ELSE event.y
              IN  DecodeFrom(replay_events, mods, i + 1, new_total,
                             Append(cursor_data,
                                    Event(RInt(new_total), event.x, y, event.keys)))

get_cursor_positions(replay_events, mods) ==
    DecodeFrom(replay_events, mods, 1, 0, << >>)

\* initialize_game_state: event['time'] -= OFFSET for a loaded replay.
ApplyOffset(cursor_data) ==
    [i \in 1..Len(cursor_data) |->
        [cursor_data[i] EXCEPT !.time = RSub(@, RInt(OFFSET))]]

(***************************************************************************)
(* TrajectorySynthesizer: get_slider_position_at and the Auto playstyle    *)
(***************************************************************************)
\* calculate_circle's det, and its test abs(det) < 1e-6 (None is returned).
CircleDet(x1, y1, x2, y2, x3, y3) ==
    RSub(RMul(RSub(x1, x2), RSub(y2, y3)), RMul(RSub(x2, x3), RSub(y1, y2)))

IsColinear(x1, y1, x2, y2, x3, y3) ==
    LET det == CircleDet(x1, y1, x2, y2, x3, y3)
    IN  Abs(det.n) <= (det.d - 1) \div 1000000

\* start + (end - start) * progress, the linear branch.
LinearPosition(start_x, start_y, end_x, end_y, progress) ==
    Point(RAdd(start_x, RMul(RSub(end_x, start_x), progress)),
          RAdd(start_y, RMul(RSub(end_y, start_y), progress)))

\* The cursor position along a slider at progress in [0, 1].  'L' and every
\* type but 'P' run from the head to the last curve point; 'P' does the same
\* when its three points are colinear.  A 'P' slider through three points
\* that are not colinear is placed with atan2/cos/sin, which have no exact
\* model: its position is kept as the unevaluated term [arc |-> ...].
get_slider_position_at(slider_obj, progress) ==
    LET n == Len(slider_obj.curve_points)
        start_x == RInt(slider_obj.x)
        start_y == RInt(slider_obj.y)
    IN  IF slider_obj.slider_type = "P" /\ n < 1
        THEN Point(start_x, start_y)
        ELSE LET control_point == slider_obj.curve_points[1]
                 end_point == slider_obj.curve_points[n]
             IN  IF slider_obj.slider_type = "P"
                    /\ ~IsColinear(start_x, start_y, control_point.x, control_point.y,
                                   end_point.x, end_point.y)
                 THEN Point([arc |-> <<slider_obj.time, "x">>, progress |-> progress],
                            [arc |-> <<slider_obj.time, "y">>, progress |-> progress])
                 ELSE LinearPosition(start_x, start_y, end_point.x, end_point.y, progress)

\* The events of one slider in generate_auto_play_cursor_data: i runs over
\* range(num_points + 1), which is empty when num_points < 0.
AutoSliderEvents(obj, num_points) ==
    [k \in 1..(num_points + 1) |->
        LET progress == Rat(k - 1, num_points)
            interp_time == RAdd(RInt(obj.time), RMul(progress, obj.slider_duration))
            position == get_slider_position_at(obj, progress)
        IN  Event(interp_time, position.x, position.y, 1)]

\* The events of one hit object with the key up just before a circle.
AutoObjectEvents_tap(obj) ==
    IF obj.object_name = ""
    THEN [raised |-> "KeyError", events |-> << >>]
    ELSE IF obj.object_name = "circle"
    THEN [raised |-> "",
          events |-> <<Event(RInt(obj.time - AutoLead - 1), RInt(obj.x), RInt(obj.y), 0),
                       Event(RInt(obj.time - AutoLead), RInt(obj.x), RInt(obj.y), 1)>>]
    ELSE IF obj.object_name = "slider"
    THEN LET num_points == RTrunc(RDiv(obj.slider_duration, RInt(AutoInterval)))
         IN  IF num_points = 0
             THEN [raised |-> "ZeroDivisionError", events |-> << >>]
             ELSE [raised |-> "", events |-> AutoSliderEvents(obj, num_points)]
    ELSE [raised |-> "",
          events |-> <<Event(RInt(obj.time - AutoLead),
                             Rat(OSU_PLAYFIELD_WIDTH, 2), Rat(OSU_PLAYFIELD_HEIGHT, 2), 1)>>]

\* The events one hit object adds; raised = "ZeroDivisionError" when a slider
\* shorter than 10 ms makes num_points 0 (progress = i / num_points), and
\* "KeyError" when the object has no 'object_name'.
AutoObjectEvents(obj) ==
    IF obj.object_name = ""
    THEN [raised |-> "KeyError", events |-> << >>]
    ELSE IF obj.object_name = "circle"
    THEN [raised |-> "",
          events |-> <<Event(RInt(obj.time - AutoLead), RInt(obj.x), RInt(obj.y), 1)>>]
    ELSE IF obj.object_name = "slider"
    THEN LET num_points == RTrunc(RDiv(obj.slider_duration, RInt(AutoInterval)))
         IN  IF num_points = 0
             THEN [raised |-> "ZeroDivisionError", events |-> << >>]
             ELSE [raised |-> "", events |-> AutoSliderEvents(obj, num_points)]
    ELSE [raised |-> "",
          events |-> <<Event(RInt(obj.time - AutoLead),
                             Rat(OSU_PLAYFIELD_WIDTH, 2), Rat(OSU_PLAYFIELD_HEIGHT, 2), 1)>>]

RECURSIVE AutoFrom(_, _, _)
AutoFrom(hit_objects, i, cursor_data) ==
    IF i > Len(hit_objects) THEN [raised |-> "", cursor_data |-> cursor_data]
    ELSE LET r == AutoObjectEvents(hit_objects[i]) IN
         IF r.raised # ""
         THEN [raised |-> r.raised, cursor_data |-> << >>]
         ELSE AutoFrom(hit_objects, i + 1, cursor_data \o r.events)

generate_auto_play_cursor_data(hit_objects) == AutoFrom(hit_objects, 1, << >>)

(***************************************************************************)
(* TrajectorySynthesizer: the Dancer playstyle                             *)
(***************************************************************************)
\* compute_angle(...) < 30 for the vectors (x1, y1), (x2, y2): the angle
\* |atan2(det, dot)| is below 30 degrees iff dot > 0 and |det| < dot*tan(30),
\* that is 3*det^2 < dot^2; atan2(0, 0) is 0.
AngleBelowThreshold(x1, y1, x2, y2) ==
    LET dot == RAdd(RMul(x1, x2), RMul(y1, y2))
        det == RSub(RMul(x1, y2), RMul(y1, x2))
    IN  \/ dot.n = 0 /\ det.n = 0
        \/ dot.n > 0 /\ RLt(RMul(RInt(3), RMul(det, det)), RMul(dot, dot))

\* The position of a movement event: the cubic Bezier from start to the
\* object whose control points are the thirds-points offset perpendicular
\* by dancing_degree * length * curve_direction.  When start and end
\* coincide, length is 0, dx = dy = 0 and every control point is the start,
\* so the curve is that point.  Otherwise the value needs a square root and
\* cubes of t / num_points; it is kept as the unevaluated term.
BezierPosition(axis, start_x, start_y, x, y, dancing_degree, curve_direction, t_normalized) ==
    IF start_x = x /\ start_y = y
    THEN (IF axis = "x" THEN x ELSE y)
    ELSE [bezier |-> axis, start |-> Point(start_x, start_y), end |-> Point(x, y),
          offset |-> RMul(dancing_degree, RInt(curve_direction)), t |-> t_normalized]

\* The loop state of generate_dancer_cursor_data before its first object.
\* previous_obj = None is the empty object_name.
DancerStart(hit_objects) ==
    IF Len(hit_objects) = 0
    THEN [cursor_data |-> << >>, previous_obj |-> "", previous_time |-> RInt(0),
          previous_x |-> RInt(0), previous_y |-> RInt(0),
          previous_end_position |-> Point(RInt(0), RInt(0)), curve_direction |-> 1]
    ELSE LET first_obj == hit_objects[1]
             move_start_time == first_obj.time - DancerLeadIn
         IN  [cursor_data |-> <<Event(RInt(move_start_time), RInt(first_obj.x),
                                      RInt(first_obj.y), 0)>>,
              previous_obj |-> "", previous_time |-> RInt(move_start_time),
              previous_x |-> RInt(first_obj.x), previous_y |-> RInt(first_obj.y),
              previous_end_position |-> Point(RInt(0), RInt(0)), curve_direction |-> 1]

\* One iteration of the loop over enumerate(beatmap.hit_objects), i 1-based.
DancerObject(st, hit_objects, i, dancing_degree, alternate_curve_direction) ==
    LET obj == hit_objects[i]
        time == RInt(obj.time)
        x == RInt(obj.x)
        y == RInt(obj.y)
        start_x == IF st.previous_obj = "slider" THEN st.previous_end_position.x
                   ELSE IF st.previous_obj # "" THEN st.previous_x ELSE x
        start_y == IF st.previous_obj = "slider" THEN st.previous_end_position.y
                   ELSE IF st.previous_obj # "" THEN st.previous_y ELSE y
        raw_diff == RSub(time, st.previous_time)
        time_diff == IF RLe(raw_diff, RInt(0)) THEN RInt(1) ELSE raw_diff
        num_points ==
            LET n == RTrunc(RDiv(time_diff, RInt(DesiredPointInterval)))
            IN  IF n > 1 THEN n ELSE 1
        curve_direction ==
            IF alternate_curve_direction /\ st.previous_obj # "" /\ i < Len(hit_objects)
            THEN LET next_obj == hit_objects[i + 1] IN
                 IF AngleBelowThreshold(RSub(x, start_x), RSub(y, start_y),
                                        RSub(RInt(next_obj.x), x), RSub(RInt(next_obj.y), y))
                 THEN -st.curve_direction ELSE st.curve_direction
            ELSE IF alternate_curve_direction THEN 1 ELSE st.curve_direction
        movement ==
            [k \in 1..num_points |->
                LET t_normalized == Rat(k - 1, num_points)
                    interp_time == RAdd(st.previous_time, RMul(t_normalized, time_diff))
                IN  Event(interp_time,
                          BezierPosition("x", start_x, start_y, x, y, dancing_degree,
                                     curve_direction, t_normalized),
                          BezierPosition("y", start_x, start_y, x, y, dancing_degree,
                                     curve_direction, t_normalized),
                          0)]
        key_release_time == RAdd(time, RInt(KeyHoldDuration))
        hold_points ==
            LET n == KeyHoldDuration \div DesiredPointInterval
            IN  IF n > 1 THEN n ELSE 1
        hold ==
            [k \in 1..hold_points |->
                Event(RAdd(time, RMul(Rat(k - 1, hold_points), RInt(KeyHoldDuration))),
                      x, y, KeyK1)]
        release == <<Event(key_release_time, x, y, 0)>>
        slider_duration == obj.slider_duration
        num_slider_points ==
            LET n == RTrunc(RDiv(slider_duration, RInt(DesiredPointInterval)))
            IN  IF n > 1 THEN n ELSE 1
        slider_events ==
            [k \in 1..(num_slider_points + 1) |->
                LET progress == Rat(k - 1, num_slider_points)
                    position == get_slider_position_at(obj, progress)
                IN  Event(RAdd(time, RMul(progress, slider_duration)),
                          position.x, position.y, KeyK1)]
        position == get_slider_position_at(obj, RInt(1))
        slider_release_time ==
            RAdd(RAdd(time, slider_duration), RInt(SliderReleaseDelay))
    IN  IF obj.object_name = "slider"
        THEN [cursor_data |-> st.cursor_data \o movement \o hold \o release
                              \o slider_events
                              \o <<Event(slider_release_time, position.x, position.y, 0)>>,
              previous_obj |-> obj.object_name,
              previous_time |-> slider_release_time,
              previous_x |-> position.x, previous_y |-> position.y,
              previous_end_position |-> position,
              curve_direction |-> curve_direction]
        ELSE [cursor_data |-> st.cursor_data \o movement \o hold \o release,
              previous_obj |-> obj.object_name,
              previous_time |-> key_release_time,
              previous_x |-> x, previous_y |-> y,
              previous_end_position |-> Point(RInt(0), RInt(0)),
              curve_direction |-> curve_direction]

RECURSIVE DancerFrom(_, _, _, _, _)
DancerFrom(st, hit_objects, i, dancing_degree, alternate_curve_direction) ==
    IF i > Len(hit_objects) THEN st.cursor_data
    ELSE DancerFrom(DancerObject(st, hit_objects, i, dancing_degree,
                                 alternate_curve_direction),
                    hit_objects, i + 1, dancing_degree, alternate_curve_direction)

\* The iteration of an object without 'object_name' raises KeyError where
\* it asks whether the object is a slider.
generate_dancer_cursor_data(hit_objects, dancing_degree, alternate_curve_direction) ==
    IF \E i \in 1..Len(hit_objects) : hit_objects[i].object_name = ""
    THEN [raised |-> "KeyError", cursor_data |-> << >>]
    ELSE [raised |-> "",
          cursor_data |-> DancerFrom(DancerStart(hit_objects), hit_objects, 1,
                                     dancing_degree, alternate_curve_direction)]

\* generate_auto_replay: the playstyle token selects the synthesizer.
generate_auto_replay(hit_objects, playstyle, dancing_degree, alternate_curve_direction) ==
    IF playstyle = "Auto" THEN generate_auto_play_cursor_data(hit_objects)
    ELSE IF playstyle = "Dancer"
    THEN generate_dancer_cursor_data(hit_objects, dancing_degree, alternate_curve_direction)
    ELSE [raised |-> "ValueError", cursor_data |-> << >>]

(***************************************************************************)
(* BeatmapModel: timing, slider duration, ticks, the Hard Rock transform   *)
(***************************************************************************)
\* A timing point of parse_timing_point (the fields the core reads).
TimingPoint(time, beat_length, uninherited) ==
    [time |-> time, beat_length |-> beat_length, uninherited |-> uninherited]

\* self.difficulty.get(key, default) read as a float.  The difficulty
\* section is a function from the keys the file has to their values.
DifficultyGet(difficulty, key, default) ==
    IF key \in DOMAIN difficulty THEN difficulty[key] ELSE default

\* The loop forgetting the uninherited point at every inherited one.
RECURSIVE TimingScan_reset(_, _, _, _, _)
TimingScan_reset(timing_points, time, i, last_uninherited, last_inherited) ==
    IF i > Len(timing_points) \/ ~RLe(timing_points[i].time, time)
    THEN [last_uninherited |-> last_uninherited, last_inherited |-> last_inherited]
    ELSE IF timing_points[i].uninherited # 0
         THEN TimingScan_reset(timing_points, time, i + 1, i, last_inherited)
         ELSE TimingScan_reset(timing_points, time, i + 1, 0, i)

\* The loop of get_timing_at from point i on: the last uninherited and the
\* last inherited point seen (0 = None), stopping at the first later point.
RECURSIVE TimingScan(_, _, _, _, _)
TimingScan(timing_points, time, i, last_uninherited, last_inherited) ==
    IF i > Len(timing_points) \/ ~RLe(timing_points[i].time, time)
    THEN [last_uninherited |-> last_uninherited, last_inherited |-> last_inherited]
    ELSE IF timing_points[i].uninherited # 0
         THEN TimingScan(timing_points, time, i + 1, i, last_inherited)
         ELSE TimingScan(timing_points, time, i + 1, last_uninherited, i)

\* (beat_length, slider_velocity) at a time; raised when the inherited
\* point's beat_length is 0 (-100 / 0).
get_timing_at(timing_points, time) ==
    LET found == TimingScan(timing_points, time, 1, 0, 0)
        beat_length == IF found.last_uninherited # 0
                       THEN timing_points[found.last_uninherited].beat_length
                       ELSE RInt(DefaultBeatLength)
    IN  IF found.last_inherited # 0
        THEN IF timing_points[found.last_inherited].beat_length.n = 0
             THEN [raised |-> "ZeroDivisionError", beat_length |-> beat_length,
                   slider_velocity |-> RInt(1)]
             ELSE [raised |-> "", beat_length |-> beat_length,
                   slider_velocity |->
                       RDiv(RInt(-100), timing_points[found.last_inherited].beat_length)]
        ELSE [raised |-> "", beat_length |-> beat_length, slider_velocity |-> RInt(1)]

\* calculate_slider_duration for a slider of the given time, length, slides.
calculate_slider_duration(difficulty, timing_points, time, length, slides) ==
    LET slider_multiplier == DifficultyGet(difficulty, "SliderMultiplier", RInt(1))
        timing == get_timing_at(timing_points, RInt(time))
        pixel_length_per_beat ==
            RMul(RMul(slider_multiplier, timing.slider_velocity), RInt(100))
    IN  IF timing.raised # "" THEN [raised |-> timing.raised, value |-> RInt(0)]
        ELSE IF pixel_length_per_beat.n = 0
        THEN [raised |-> "ZeroDivisionError", value |-> RInt(0)]
        ELSE [raised |-> "",
              value |-> RMul(RDiv(RMul(length, timing.beat_length), pixel_length_per_beat),
                             RInt(slides))]

\* A slider as parse_hit_object builds it, slider_duration computed at parse.
ParsedSlider(difficulty, timing_points, x, y, time, slider_type, curve_points, slides, length) ==
    Slider(x, y, time, slider_type, curve_points, slides, length,
           calculate_slider_duration(difficulty, timing_points, time, length, slides).value)

\* parse_timing_point on the values of a line: time, beat_length, meter,
\* sample_set, sample_index, volume, uninherited, effects; a line may stop
\* early, uninherited then defaults to 1.
parse_timing_point(values) ==
    IF Len(values) < 2
    THEN [raised |-> "IndexError", timing_point |-> TimingPoint(RInt(0), RInt(0), 1)]
    ELSE [raised |-> "",
          timing_point |-> TimingPoint(values[1], values[2],
                                       IF Len(values) > 6 THEN values[7] ELSE 1)]

\* parse_hit_object on the values of a line: x, y, time, type, hit_sound and,
\* for a slider, the curve (its type letter and points), slides, length; for
\* a spinner, end_time.
parse_hit_object(values, difficulty, timing_points) ==
    LET failed(e) == [raised |-> e, obj |-> Untyped(0, 0, 0)]
        returned(o) == [raised |-> "", obj |-> o]
    IN  IF Len(values) < 5 THEN failed("IndexError")
        ELSE LET x == values[1]
                 y == values[2]
                 time == values[3]
                 obj_type == values[4]
             IN  IF BitAnd(obj_type, 1) # 0 THEN returned(Circle(x, y, time))
                 ELSE IF BitAnd(obj_type, 2) # 0
                 THEN IF Len(values) < 8 THEN failed("IndexError")
                      ELSE LET duration ==
                                   calculate_slider_duration(difficulty, timing_points,
                                                             time, values[8], values[7])
                           IN  IF duration.raised # "" THEN failed(duration.raised)
                               ELSE returned(Slider(x, y, time, values[6].slider_type,
                                                    values[6].curve_points, values[7],
                                                    values[8], duration.value))
                 ELSE IF BitAnd(obj_type, 8) # 0
                 THEN IF Len(values) < 6 THEN failed("IndexError")
                      ELSE returned(Spinner(x, y, time, values[6]))
                 ELSE returned(Untyped(x, y, time))

\* Beatmap.__init__ / parse_beatmap on a file given by its sections: the
\* General and Difficulty key-value sections, and the value lists of the
\* TimingPoints and HitObjects lines.  The timing points are parsed first,
\* then the hit objects, and the first line that raises ends construction.
parse_beatmap(file) ==
    LET points == [k \in 1..Len(file.timing_points) |->
                      parse_timing_point(file.timing_points[k])]
        parsed_points == [k \in 1..Len(points) |-> points[k].timing_point]
        objects == [k \in 1..Len(file.hit_objects) |->
                       parse_hit_object(file.hit_objects[k], file.difficulty,
                                        parsed_points)]
        bad_points == {k \in 1..Len(points) : points[k].raised # ""}
        bad_objects == {k \in 1..Len(objects) : objects[k].raised # ""}
        result(e) ==
            [raised |-> e, general |-> file.general, difficulty |-> file.difficulty,
             timing_points |-> parsed_points,
             hit_objects |-> [k \in 1..Len(objects) |-> objects[k].obj]]
    IN  IF bad_points # {}
        THEN result(points[CHOOSE k \in bad_points : \A j \in bad_points : k <= j].raised)
        ELSE IF bad_objects # {}
        THEN result(objects[CHOOSE k \in bad_objects : \A j \in bad_objects : k <= j].raised)
        ELSE result("")

\* A slider tick of compute_slider_ticks.
Tick(time, position, processed, hit) ==
    [time |-> time, position |-> position, processed |-> processed, hit |-> hit]

\* The ticks of one repeat with every repeat run forward.
RepeatTicks_forward(obj, repeat_index, ticks_per_repeat, tick_distance) ==
    LET kept == {k \in 1..ticks_per_repeat :
                    \A j \in 1..k : RLt(RMul(RInt(j), tick_distance), obj.length)}
    IN  [k \in 1..Cardinality(kept) |->
            LET tick_position == RMul(RInt(k), tick_distance)
                tick_progress == RDiv(tick_position, obj.length)
                tick_time == RAdd(RInt(obj.time),
                                  RMul(RDiv(obj.slider_duration, RInt(obj.slides)),
                                       RAdd(RInt(repeat_index), tick_progress)))
            IN  Tick(tick_time, get_slider_position_at(obj, tick_progress), FALSE, FALSE)]

\* The ticks of one repeat: tick_index runs over 1..ticks_per_repeat and
\* the loop breaks at the first tick_position >= slider_length.
RepeatTicks(obj, repeat_index, ticks_per_repeat, tick_distance) ==
    LET kept == {k \in 1..ticks_per_repeat :
                    \A j \in 1..k : RLt(RMul(RInt(j), tick_distance), obj.length)}
    IN  [k \in 1..Cardinality(kept) |->
            LET tick_position == RMul(RInt(k), tick_distance)
                forward == RDiv(tick_position, obj.length)
                tick_progress == IF repeat_index % 2 = 1
                                 THEN RSub(RInt(1), forward) ELSE forward
                tick_time == RAdd(RInt(obj.time),
                                  RMul(RDiv(obj.slider_duration, RInt(obj.slides)),
                                       RAdd(RInt(repeat_index), tick_progress)))
            IN  Tick(tick_time, get_slider_position_at(obj, tick_progress), FALSE, FALSE)]

RECURSIVE TicksFrom(_, _, _, _)
TicksFrom(obj, repeat_index, ticks_per_repeat, tick_distance) ==
    IF repeat_index >= obj.slides THEN << >>
    ELSE RepeatTicks(obj, repeat_index, ticks_per_repeat, tick_distance)
         \o TicksFrom(obj, repeat_index + 1, ticks_per_repeat, tick_distance)

\* compute_slider_ticks: raised is "KeyError" when the Difficulty section
\* lacks SliderMultiplier or SliderTickRate, "ZeroDivisionError" when the
\* tick rate or the tick distance is 0.
compute_slider_ticks(obj, difficulty, timing_points) ==
    LET timing == get_timing_at(timing_points, RInt(obj.time)) IN
    IF timing.raised # "" THEN [raised |-> timing.raised, ticks |-> << >>]
    ELSE IF "SliderMultiplier" \notin DOMAIN difficulty
            \/ "SliderTickRate" \notin DOMAIN difficulty
    THEN [raised |-> "KeyError", ticks |-> << >>]
    ELSE LET slider_multiplier == difficulty["SliderMultiplier"]
             tick_rate == difficulty["SliderTickRate"]
         IN  IF tick_rate.n = 0 THEN [raised |-> "ZeroDivisionError", ticks |-> << >>]
             ELSE LET tick_distance ==
                          RMul(RMul(RDiv(timing.beat_length, tick_rate), slider_multiplier),
                               timing.slider_velocity)
                  IN  IF tick_distance.n = 0
                      THEN [raised |-> "ZeroDivisionError", ticks |-> << >>]
                      ELSE [raised |-> "",
                            ticks |-> TicksFrom(obj, 0,
                                                RTrunc(RDiv(obj.length, tick_distance)),
                                                tick_distance)]

\* The stats apply_hard_rock_mod rescales.
HardRockStats == {"CircleSize", "ApproachRate", "OverallDifficulty", "HPDrainRate"}

\* apply_hard_rock_mod on the Difficulty section: min(stat * 1.4, 10), a
\* missing stat read as 5 and written back.
HardRockDifficulty(difficulty) ==
    [k \in DOMAIN difficulty \cup HardRockStats |->
        IF k \in HardRockStats
        THEN RMin(RMul(DifficultyGet(difficulty, k, RInt(5)), Rat(14, 10)), RInt(10))
        ELSE difficulty[k]]

\* The mirror applied to the object's own y only.
HardRockObject_head_only(obj) == [obj EXCEPT !.y = OSU_PLAYFIELD_HEIGHT - obj.y]

\* apply_hard_rock_mod on one hit object: y, and each curve point's y of a
\* slider, mirrored about the playfield height.
HardRockObject(obj) ==
    [obj EXCEPT
        !.y = OSU_PLAYFIELD_HEIGHT - obj.y,
        !.curve_points =
            IF obj.object_name = "slider"
            THEN [i \in 1..Len(obj.curve_points) |->
                    [obj.curve_points[i] EXCEPT
                        !.y = RSub(RInt(OSU_PLAYFIELD_HEIGHT), obj.curve_points[i].y)]]
            ELSE obj.curve_points]

HardRockObjects(hit_objects) ==
    [i \in 1..Len(hit_objects) |-> HardRockObject(hit_objects[i])]

(***************************************************************************)
(* DifficultyMath: src/utils.py                                            *)
(***************************************************************************)
calculate_circle_radius(cs) == RSub(Rat(544, 10), RMul(Rat(448, 100), cs))

calculate_preempt(ar) ==
    IF RLt(ar, RInt(5))
    THEN RAdd(RInt(1200), RDiv(RMul(RInt(600), RSub(RInt(5), ar)), RInt(5)))
    ELSE RSub(RInt(1200), RDiv(RMul(RInt(750), RSub(ar, RInt(5))), RInt(5)))

\* <<hit_window_300, hit_window_100, hit_window_50>>
calculate_hit_windows(od) ==
    <<RSub(Rat(795, 10), RMul(RInt(6), od)),
      RSub(Rat(1395, 10), RMul(RInt(8), od)),
      RSub(Rat(1995, 10), RMul(RInt(10), od))>>

\* math.hypot(cursor_x - obj_x, cursor_y - obj_y) > radius, on squares.
DistanceGreater(cursor_x, cursor_y, obj_x, obj_y, radius) ==
    LET dx == RSub(cursor_x, obj_x)
        dy == RSub(cursor_y, obj_y)
    IN  \/ radius.n < 0
        \/ RLt(RMul(radius, radius), RAdd(RMul(dx, dx), RMul(dy, dy)))

(***************************************************************************)
(* JudgmentEngine: main.py                                                 *)
(*                                                                         *)
(* The operators below work on the judgment state js, the part of          *)
(* game_state the judgment step writes:                                    *)
(*   hitted_objects  the keys of the dict (start times)                    *)
(*   active_sliders  the dict in insertion order, one record per key       *)
(*   ticks           obj['ticks'] of each slider that has them, by the     *)
(*                   slider's index in hit_objects (the list is shared by  *)
(*                   the object and its ActiveSlider)                      *)
(*   score           the score dict                                       *)
(*   calls           the success_hit / miss calls made so far, in order,   *)
(*                   each with the object it judged                        *)
(*   started         the sliders an ActiveSlider was registered for, in    *)
(*                   order of registration                                 *)
(*   notifications   the renderer notifications sent so far                *)
(*   raised          the exception that ended the step, "" if none         *)
(* The renderer and the sounds are presentation collaborators: a call to   *)
(* them is recorded, it does not change the judgment state.                *)
(***************************************************************************)
\* success_hit adding the tier to the combo.
success_hit_adds_tier(hitscore, score_obj) ==
    [score_obj EXCEPT !.total_hits = @ + 1, !.combo = @ + hitscore]

success_hit(hitscore, score_obj) ==
    [score_obj EXCEPT !.total_hits = @ + 1, !.combo = @ + 1]

miss(score_obj) ==
    [score_obj EXCEPT !.total_hits = @ + 1, !.combo = 0]

\* A call of success_hit / miss from the judgment of object i.
CallSuccessHit(js, i, hitscore) ==
    [js EXCEPT !.score = success_hit(hitscore, js.score),
               !.calls = Append(@, [fn |-> "success_hit", hitscore |-> hitscore, obj |-> i])]

CallMiss(js, i) ==
    [js EXCEPT !.score = miss(js.score),
               !.calls = Append(@, [fn |-> "miss", hitscore |-> 0, obj |-> i])]

Within(time_diff, window) == RLe(RNeg(window), time_diff) /\ RLe(time_diff, window)

\* process_circle that judges the circle and does not record it as judged.
process_circle_unmarked(js, hit_objects, i, time_diff, cursor_pos, cs, new_key_pressed, hit_windows) ==
    LET obj == hit_objects[i]
        radius == calculate_circle_radius(cs)
    IN  IF new_key_pressed = 0 THEN js
        ELSE IF DistanceGreater(cursor_pos.x, cursor_pos.y, RInt(obj.x), RInt(obj.y), radius)
        THEN js
        ELSE IF Within(time_diff, hit_windows[1]) THEN CallSuccessHit(js, i, 300)
        ELSE IF Within(time_diff, hit_windows[2]) THEN CallSuccessHit(js, i, 100)
        ELSE IF Within(time_diff, hit_windows[3]) THEN CallSuccessHit(js, i, 50)
        ELSE CallMiss(js, i)

\* process_circle that reads a held key as a press.
process_circle_held(js, hit_objects, i, time_diff, cursor_pos, cs, new_key_pressed, hit_windows) ==
    LET obj == hit_objects[i]
        radius == calculate_circle_radius(cs)
    IN  IF cursor_pos.keys = 0 THEN js
        ELSE IF DistanceGreater(cursor_pos.x, cursor_pos.y, RInt(obj.x), RInt(obj.y), radius)
        THEN js
        ELSE LET judged ==
                     IF Within(time_diff, hit_windows[1]) THEN CallSuccessHit(js, i, 300)
                     ELSE IF Within(time_diff, hit_windows[2]) THEN CallSuccessHit(js, i, 100)
                     ELSE IF Within(time_diff, hit_windows[3]) THEN CallSuccessHit(js, i, 50)
                     ELSE CallMiss(js, i)
             IN  [judged EXCEPT !.hitted_objects = @ \cup {obj.time}]

\* process_circle that awards 300 anywhere in the 100 window.
process_circle_wide(js, hit_objects, i, time_diff, cursor_pos, cs, new_key_pressed, hit_windows) ==
    LET obj == hit_objects[i]
        radius == calculate_circle_radius(cs)
    IN  IF new_key_pressed = 0 THEN js
        ELSE IF DistanceGreater(cursor_pos.x, cursor_pos.y, RInt(obj.x), RInt(obj.y), radius)
        THEN js
        ELSE LET judged ==
                     IF Within(time_diff, hit_windows[2]) THEN CallSuccessHit(js, i, 300)
                     ELSE IF Within(time_diff, hit_windows[3]) THEN CallSuccessHit(js, i, 50)
                     ELSE CallMiss(js, i)
             IN  [judged EXCEPT !.hitted_objects = @ \cup {obj.time}]

process_circle(js, hit_objects, i, time_diff, cursor_pos, cs, new_key_pressed, hit_windows) ==
    LET obj == hit_objects[i]
        radius == calculate_circle_radius(cs)
    IN  IF new_key_pressed = 0 THEN js
        ELSE IF DistanceGreater(cursor_pos.x, cursor_pos.y, RInt(obj.x), RInt(obj.y), radius)
        THEN js
        ELSE LET judged ==
                     IF Within(time_diff, hit_windows[1]) THEN CallSuccessHit(js, i, 300)
                     ELSE IF Within(time_diff, hit_windows[2]) THEN CallSuccessHit(js, i, 100)
                     ELSE IF Within(time_diff, hit_windows[3]) THEN CallSuccessHit(js, i, 50)
                     ELSE CallMiss(js, i)
             IN  [judged EXCEPT
                     !.notifications =
                         Append(@, [fn |-> "on_object_hit", obj |-> i, score |-> 300]),
                     !.hitted_objects = @ \cup {obj.time}]

\* active_sliders[key] = info: a new key goes last, an old key keeps its place.
PutActive(active_sliders, info) ==
    IF \E k \in 1..Len(active_sliders) : active_sliders[k].start_time = info.start_time
    THEN [k \in 1..Len(active_sliders) |->
            IF active_sliders[k].start_time = info.start_time
            THEN info ELSE active_sliders[k]]
    ELSE Append(active_sliders, info)

\* process_slider_start without the miss for a press outside the radius.
process_slider_start_lenient(js, hit_objects, i, time_diff, cursor_pos, cs, new_key_pressed, hit_windows, difficulty, timing_points) ==
    LET obj == hit_objects[i]
        radius == calculate_circle_radius(cs)
    IN  IF obj.time \in js.hitted_objects THEN js
        ELSE IF new_key_pressed = 0 THEN js
        ELSE IF DistanceGreater(cursor_pos.x, cursor_pos.y, RInt(obj.x), RInt(obj.y), radius)
        THEN js
        ELSE IF Within(time_diff, hit_windows[3])
        THEN LET computed == compute_slider_ticks(obj, difficulty, timing_points)
                 fresh == i \notin DOMAIN js.ticks
             IN  IF fresh /\ computed.raised # ""
                 THEN [js EXCEPT !.raised = computed.raised]
                 ELSE LET ticks == IF fresh THEN computed.ticks ELSE js.ticks[i]
                          info == [object |-> i,
                                   start_time |-> obj.time,
                                   end_time |-> RAdd(RInt(obj.time), obj.slider_duration),
                                   missed_ticks |-> 0,
                                   total_ticks |-> Len(ticks)]
                      IN  [js EXCEPT
                              !.ticks = [k \in DOMAIN js.ticks \cup {i} |->
                                            IF k = i THEN ticks ELSE js.ticks[k]],
                              !.active_sliders = PutActive(@, info),
                              !.started = Append(@, i),
                              !.hitted_objects = @ \cup {obj.time}]
        ELSE [CallMiss(js, i) EXCEPT !.hitted_objects = @ \cup {obj.time}]

process_slider_start(js, hit_objects, i, time_diff, cursor_pos, cs, new_key_pressed, hit_windows, difficulty, timing_points) ==
    LET obj == hit_objects[i]
        radius == calculate_circle_radius(cs)
    IN  IF obj.time \in js.hitted_objects THEN js
        ELSE IF new_key_pressed = 0 THEN js
        ELSE IF DistanceGreater(cursor_pos.x, cursor_pos.y, RInt(obj.x), RInt(obj.y), radius)
        THEN [CallMiss(js, i) EXCEPT !.hitted_objects = @ \cup {obj.time}]
        ELSE IF Within(time_diff, hit_windows[3])
        THEN LET computed == compute_slider_ticks(obj, difficulty, timing_points)
                 fresh == i \notin DOMAIN js.ticks
             IN  IF fresh /\ computed.raised # ""
                 THEN [js EXCEPT !.raised = computed.raised]
                 ELSE LET ticks == IF fresh THEN computed.ticks ELSE js.ticks[i]
                          info == [object |-> i,
                                   start_time |-> obj.time,
                                   end_time |-> RAdd(RInt(obj.time), obj.slider_duration),
                                   missed_ticks |-> 0,
                                   total_ticks |-> Len(ticks)]
                      IN  [js EXCEPT
                              !.ticks = [k \in DOMAIN js.ticks \cup {i} |->
                                            IF k = i THEN ticks ELSE js.ticks[k]],
                              !.active_sliders = PutActive(@, info),
                              !.started = Append(@, i),
                              !.hitted_objects = @ \cup {obj.time}]
        ELSE [CallMiss(js, i) EXCEPT !.hitted_objects = @ \cup {obj.time}]

\* ProcessTicks counting every tick as hit.
RECURSIVE ProcessTicks_all_hit(_, _, _, _, _, _)
ProcessTicks_all_hit(ticks, k, current_time, cursor_pos, radius, key_pressed) ==
    IF k > Len(ticks) THEN [ticks |-> ticks, missed |-> 0]
    ELSE LET tick == ticks[k] IN
         IF tick.processed \/ ~RLe(tick.time, current_time)
         THEN ProcessTicks_all_hit(ticks, k + 1, current_time, cursor_pos, radius, key_pressed)
         ELSE ProcessTicks_all_hit([ticks EXCEPT ![k] = Tick(tick.time, tick.position,
                                                              TRUE, TRUE)],
                                   k + 1, current_time, cursor_pos, radius, key_pressed)

\* The tick loop of process_active_sliders over one slider's ticks, from
\* tick k on; missed counts the ticks this pass marks missed.
RECURSIVE ProcessTicks(_, _, _, _, _, _)
ProcessTicks(ticks, k, current_time, cursor_pos, radius, key_pressed) ==
    IF k > Len(ticks) THEN [ticks |-> ticks, missed |-> 0]
    ELSE LET tick == ticks[k] IN
         IF tick.processed \/ ~RLe(tick.time, current_time)
         THEN ProcessTicks(ticks, k + 1, current_time, cursor_pos, radius, key_pressed)
         ELSE LET hit == ~DistanceGreater(cursor_pos.x, cursor_pos.y,
                                          tick.position.x, tick.position.y, radius)
                         /\ key_pressed
                  rest == ProcessTicks([ticks EXCEPT ![k] = Tick(tick.time, tick.position,
                                                                  TRUE, hit)],
                                       k + 1, current_time, cursor_pos, radius, key_pressed)
              IN  [ticks |-> rest.ticks,
                   missed |-> rest.missed + (IF hit THEN 0 ELSE 1)]

RemoveActive(active_sliders, slider_time) ==
    SelectSeq(active_sliders, LAMBDA info : info.start_time # slider_time)

\* ProcessActiveSlider leaving missed_ticks as it was.
ProcessActiveSlider_uncounted(js, slider_time, current_time, cursor_pos, radius, key_pressed) ==
    LET slider_info == CHOOSE info \in {js.active_sliders[k] : k \in 1..Len(js.active_sliders)} :
                           info.start_time = slider_time
    IN  IF RLe(slider_info.end_time, current_time)
        THEN LET scored ==
                     IF slider_info.missed_ticks = 0
                     THEN CallSuccessHit(js, slider_info.object, 300)
                     ELSE IF slider_info.missed_ticks < slider_info.total_ticks
                     THEN CallSuccessHit(js, slider_info.object, 100)
                     ELSE CallMiss(js, slider_info.object)
             IN  [scored EXCEPT !.active_sliders = RemoveActive(@, slider_time)]
        ELSE LET done == ProcessTicks(js.ticks[slider_info.object], 1, current_time,
                                      cursor_pos, radius, key_pressed)
             IN  [js EXCEPT !.ticks[slider_info.object] = done.ticks]

\* ProcessActiveSlider scoring every finished slider 300.
ProcessActiveSlider_all300(js, slider_time, current_time, cursor_pos, radius, key_pressed) ==
    LET slider_info == CHOOSE info \in {js.active_sliders[k] : k \in 1..Len(js.active_sliders)} :
                           info.start_time = slider_time
    IN  IF RLe(slider_info.end_time, current_time)
        THEN LET scored ==
                     CallSuccessHit(js, slider_info.object, 300)
             IN  [scored EXCEPT !.active_sliders = RemoveActive(@, slider_time)]
        ELSE LET done == ProcessTicks(js.ticks[slider_info.object], 1, current_time,
                                      cursor_pos, radius, key_pressed)
             IN  [js EXCEPT
                     !.ticks[slider_info.object] = done.ticks,
                     !.active_sliders =
                         [k \in 1..Len(js.active_sliders) |->
                             IF js.active_sliders[k].start_time = slider_time
                             THEN [slider_info EXCEPT !.missed_ticks = @ + done.missed]
                             ELSE js.active_sliders[k]]]

\* The body of process_active_sliders' loop for the slider with key slider_time.
ProcessActiveSlider(js, slider_time, current_time, cursor_pos, radius, key_pressed) ==
    LET slider_info == CHOOSE info \in {js.active_sliders[k] : k \in 1..Len(js.active_sliders)} :
                           info.start_time = slider_time
    IN  IF RLe(slider_info.end_time, current_time)
        THEN LET scored ==
                     IF slider_info.missed_ticks = 0
                     THEN CallSuccessHit(js, slider_info.object, 300)
                     ELSE IF slider_info.missed_ticks < slider_info.total_ticks
                     THEN CallSuccessHit(js, slider_info.object, 100)
                     ELSE CallMiss(js, slider_info.object)
             IN  [scored EXCEPT !.active_sliders = RemoveActive(@, slider_time)]
        ELSE LET done == ProcessTicks(js.ticks[slider_info.object], 1, current_time,
                                      cursor_pos, radius, key_pressed)
             IN  [js EXCEPT
                     !.ticks[slider_info.object] = done.ticks,
                     !.active_sliders =
                         [k \in 1..Len(js.active_sliders) |->
                             IF js.active_sliders[k].start_time = slider_time
                             THEN [slider_info EXCEPT !.missed_ticks = @ + done.missed]
                             ELSE js.active_sliders[k]]]

\* The loop over list(active_sliders.keys()), from key k of the snapshot.
RECURSIVE ActiveSlidersFrom(_, _, _, _, _, _, _)
ActiveSlidersFrom(js, keys, k, current_time, cursor_pos, radius, key_pressed) ==
    IF k > Len(keys) THEN js
    ELSE ActiveSlidersFrom(
             ProcessActiveSlider(js, keys[k], current_time, cursor_pos, radius, key_pressed),
             keys, k + 1, current_time, cursor_pos, radius, key_pressed)

process_active_sliders(js, current_time, cursor_pos, cs) ==
    ActiveSlidersFrom(js,
                      [k \in 1..Len(js.active_sliders) |-> js.active_sliders[k].start_time],
                      1, current_time, cursor_pos, calculate_circle_radius(cs),
                      BitAnd(cursor_pos.keys, KeyMask) # 0)

\* visible_hit_objects, as indices into hit_objects in beatmap order.
VisibleObjects(hit_objects, current_time, preempt) ==
    {i \in 1..Len(hit_objects) :
        /\ RLe(RSub(RInt(hit_objects[i].time), preempt), current_time)
        /\ RLe(current_time, RInt(hit_objects[i].time + FadeOut))}

\* The object the loop of handle_input_and_hits processes and breaks on: the
\* first visible one that is not in hitted_objects, whose 50 window has
\* started, and that is a circle or a slider (a spinner is passed over) or
\* has no 'object_name' (the loop ends there with KeyError).  0 when the
\* loop runs to its end.
ProcessedObject(hit_objects, hitted_objects, current_time, preempt, hit_windows) ==
    LET eligible ==
            {i \in VisibleObjects(hit_objects, current_time, preempt) :
                /\ hit_objects[i].time \notin hitted_objects
                /\ ~RLt(current_time, RSub(RInt(hit_objects[i].time), hit_windows[3]))
                /\ hit_objects[i].object_name \in {"circle", "slider", ""}}
    IN  IF eligible = {} THEN 0
        ELSE CHOOSE i \in eligible : \A j \in eligible : i <= j

handle_input_and_hits(js, hit_objects, current_time, cursor_pos, previous_key, hit_windows, preempt, cs, difficulty, timing_points) ==
    LET current_key == cursor_pos.keys
        new_key_pressed == BitAndNot(current_key, previous_key)
        advanced == process_active_sliders(js, current_time, cursor_pos, cs)
        i == ProcessedObject(hit_objects, js.hitted_objects, current_time, preempt,
                             hit_windows)
        time_diff == RSub(current_time, RInt(hit_objects[i].time))
    IN  IF i = 0 THEN advanced
        ELSE IF hit_objects[i].object_name = ""
        THEN [advanced EXCEPT !.raised = "KeyError"]
        ELSE IF hit_objects[i].object_name = "circle"
        THEN process_circle(advanced, hit_objects, i, time_diff, cursor_pos, cs,
                            new_key_pressed, hit_windows)
        ELSE process_slider_start(advanced, hit_objects, i, time_diff, cursor_pos, cs,
                                  new_key_pressed, hit_windows, difficulty, timing_points)

(***************************************************************************)
(* Beatmap getters and the values load_resources derives from them         *)
(***************************************************************************)
get_circle_size(difficulty) == DifficultyGet(difficulty, "CircleSize", RInt(5))

get_approach_rate(difficulty) ==
    IF "ApproachRate" \in DOMAIN difficulty THEN difficulty["ApproachRate"]
    ELSE DifficultyGet(difficulty, "OverallDifficulty", RInt(5))

get_overall_difficulty(difficulty) ==
    DifficultyGet(difficulty, "OverallDifficulty", RInt(5))

(***************************************************************************)
(* State                                                                   *)
(***************************************************************************)
VARIABLES
    general,          \* beatmap.general
    hit_objects,      \* beatmap.hit_objects
    difficulty,       \* beatmap.difficulty
    timing_points,    \* beatmap.timing_points
    replay_events,    \* the frames of the loaded replay
    mods,             \* resources['mods']
    option,           \* resources['option'], the replay path or 'auto'
    playstyle,        \* the playstyle token given to generate_auto_replay
    playstyle_choice, \* the answer to "Enter the number of the playstyle"
    cursor_data,      \* game_state['cursor_data']
    apply_smoothing,  \* game_state['apply_smoothing']
    current_time,     \* game_state['current_time']
    cursor_pos,       \* game_state['cursor_pos']
    previous_key,     \* game_state['previous_key']
    hitted_objects,   \* the keys of game_state['hitted_objects']
    active_sliders,   \* game_state['active_sliders'], in insertion order
    ticks,            \* obj['ticks'] by object index
    score,            \* game_state['score']
    audio_offset,     \* game_state['audio_offset']
    clock,            \* glfw.get_time() * 1000 - start_time at the last frame
    pc,               \* where the program is
    calls,            \* history: the success_hit / miss calls
    started,          \* history: the ActiveSlider registrations
    notifications,    \* history: the renderer notifications
    sampled,          \* the last sample taken of cursor_data
    original,         \* history: the beatmap as it was parsed
    flips,            \* history: the number of apply_hard_rock_mod calls
    slider_path_cache,          \* slider_render.slider_path_cache
    slider_sampled_path_cache   \* slider_render.slider_sampled_path_cache

beatmapVars == <<general, hit_objects, difficulty, timing_points>>

loadVars ==
    <<replay_events, mods, option, playstyle, playstyle_choice, cursor_data,
      apply_smoothing>>

judgmentVars ==
    <<hitted_objects, active_sliders, ticks, score, calls, started, notifications>>

frameVars == <<current_time, cursor_pos, previous_key, audio_offset, clock>>

historyVars == <<sampled, original, flips>>

skinVars == <<slider_path_cache, slider_sampled_path_cache>>

vars == <<beatmapVars, loadVars, judgmentVars, frameVars, pc, historyVars, skinVars>>

\* cursor_pos = None.
NoneCursor == Raised("None")

InitialScore ==
    [score |-> 0, total_score |-> 0, total_hits |-> 0, combo |-> 0, accuracy |-> 0]

\* The judgment state of the current state, and of the next one.
JudgmentState ==
    [hitted_objects |-> hitted_objects, active_sliders |-> active_sliders,
     ticks |-> ticks, score |-> score, calls |-> calls, started |-> started,
     notifications |-> notifications, raised |-> ""]

JudgmentStateNext ==
    [hitted_objects |-> hitted_objects', active_sliders |-> active_sliders',
     ticks |-> ticks', score |-> score', calls |-> calls', started |-> started',
     notifications |-> notifications', raised |-> ""]

\* handle_input_and_hits on a judgment state with the values game_state holds.
HandleInput(js, time, pos, prev_key) ==
    handle_input_and_hits(js, hit_objects, RInt(time), pos, prev_key,
                          calculate_hit_windows(get_overall_difficulty(difficulty)),
                          calculate_preempt(get_approach_rate(difficulty)),
                          get_circle_size(difficulty), difficulty, timing_points)

(***************************************************************************)
(* The frame loop: main's while loop after initialize_game_state           *)
(***************************************************************************)
\* Bounds of the frame loop.
MaxClock == 700

MaxAudioOffset == 10

\* The milliseconds the clock advances between two frames.
FrameSteps == {0, 25, 50, 200}

\* The Difficulty section and the timing points of the model beatmaps:
\* radius 36.48, hit windows 49.5 / 99.5 / 149.5, preempt 600.
GameDifficulty ==
    [k \in {"CircleSize", "ApproachRate", "OverallDifficulty", "SliderMultiplier",
            "SliderTickRate"} |->
        CASE k = "CircleSize" -> RInt(4)
          [] k = "ApproachRate" -> RInt(9)
          [] k = "OverallDifficulty" -> RInt(5)
          [] k = "SliderMultiplier" -> RInt(1)
          [] k = "SliderTickRate" -> RInt(2)]

GameTimingPoints == <<TimingPoint(RInt(0), RInt(100), 1)>>

\* The General section of the model beatmaps.
GameGeneral == [k \in {"AudioFilename"} |-> "audio.mp3"]

\* The playstyle choice that gives a playstyle token ("" when none is asked).
ChoiceOf(token) ==
    IF token = "Auto" THEN "1" ELSE IF token = "Dancer" THEN "2" ELSE ""

\* A linear slider from (100, 100) to (200, 100), as parse_hit_object builds
\* it: beat length 100 and multiplier 1 make its duration slides * length ms.
SliderAt(time, slides, length) ==
    ParsedSlider(GameDifficulty, GameTimingPoints, 100, 100, time, "L",
                 <<Point(RInt(200), RInt(100))>>, slides, RInt(length))

GameSlider(slides, length) == SliderAt(200, slides, length)

GameBeatmaps ==
    {<<Circle(100, 100, 200), Circle(100, 100, 400)>>,
     <<GameSlider(1, 100), Circle(200, 100, 400)>>,
     <<GameSlider(1, 150)>>,
     <<GameSlider(2, 100)>>,
     <<GameSlider(2, 120)>>,
     <<GameSlider(1, 50)>>,
     <<Spinner(256, 192, 150, 600), Circle(100, 100, 200)>>,
     <<Circle(100, 100, 200), Circle(160, 100, 200)>>}

\* The frames of a replay whose decoded events, after the OFFSET shift, are
\* the given <<time, x, keys>> triples at y = 100.
FramesOf(events) ==
    [k \in 1..Len(events) |->
        Frame(IF k = 1 THEN events[1][1] + OFFSET ELSE events[k][1] - events[k - 1][1],
              RInt(events[k][2]), RInt(100), events[k][3])]

\* A cursor resting at x that holds the keys from just after press to release.
HoldAt(press, release, x) ==
    <<<<0, x, 0>>, <<press, x, 0>>, <<release, x, 5>>, <<release + 25, x, 0>>>>

GameReplays ==
    {FramesOf(HoldAt(175, 225, 100)),
     FramesOf(HoldAt(225, 275, 100)),
     FramesOf(HoldAt(300, 350, 100)),
     FramesOf(HoldAt(350, 400, 100)),
     FramesOf(HoldAt(175, 225, 160)),
     FramesOf(HoldAt(175, 450, 100)),
     FramesOf(<<<<0, 100, 0>>, <<175, 100, 0>>, <<200, 100, 5>>, <<300, 200, 5>>,
                <<450, 200, 5>>, <<475, 200, 0>>>>),
     FramesOf(<<<<0, 100, 0>>, <<175, 100, 0>>, <<200, 100, 5>>, <<225, 150, 0>>,
                <<450, 150, 0>>>>),
     FramesOf(<<<<0, 100, 0>>, <<175, 100, 0>>, <<225, 100, 5>>, <<375, 100, 0>>,
                <<425, 100, 8>>, <<450, 100, 0>>>>),
     FramesOf(<<<<0, 100, 0>>, <<175, 100, 0>>, <<225, 100, 5>>, <<575, 100, 0>>,
                <<625, 100, 8>>, <<650, 100, 0>>>>),
     <<Frame(0, RInt(100), RInt(100), 1), Frame(-5, RInt(100), RInt(100), 1)>>
        \o FramesOf(HoldAt(275, 325, 100)),
     <<Frame(-5, RInt(100), RInt(100), 1)>>}

\* What load_resources can be given: a replay file, or 'auto' (in any case)
\* with playstyle choice 1.
GameSources ==
    {[option |-> "replay.osr", playstyle |-> "", replay_events |-> r, mods |-> 0] :
        r \in GameReplays}
    \cup {[option |-> o, playstyle |-> "Auto", replay_events |-> << >>, mods |-> 0] :
            o \in {"auto", "AUTO"}}

\* replay_option.lower() == 'auto', for the options of the model.
IsAutoOption(o) == o \in {"auto", "AUTO", "Auto"}

\* load_resources on the beatmap: a replay with the Hard Rock bit has
\* apply_hard_rock_mod called on the beatmap.
LoadedBeatmap(src, objects, section) ==
    IF ~IsAutoOption(src.option) /\ BitAnd(src.mods, ModHardRock) # 0
    THEN [hit_objects |-> HardRockObjects(objects), difficulty |-> HardRockDifficulty(section)]
    ELSE [hit_objects |-> objects, difficulty |-> section]

\* The replay_data.cursor_data load_resources leaves: the generated list
\* for 'auto', none yet for a replay file.
GeneratedCursorData(src, objects, dancing_degree, alternate_curve_direction) ==
    IF IsAutoOption(src.option)
    THEN generate_auto_replay(objects, src.playstyle, dancing_degree,
                              alternate_curve_direction)
    ELSE [raised |-> "", cursor_data |-> << >>]

\* initialize_game_state up to line 533: the generated list if there is
\* one, else the decoded replay.
DecodedCursorData(o, generated, frames, m) ==
    IF IsAutoOption(o) THEN generated ELSE get_cursor_positions(frames, m)

\* initialize_game_state lines 536-541: the shift by OFFSET unless the option
\* is exactly 'auto'.
ShiftedCursorData(o, data) == IF o # "auto" THEN ApplyOffset(data) ELSE data

NoSample == [t |-> RInt(0), smoothing |-> FALSE, result |-> NoneCursor]

\* The state initialize_game_state returns, the clock at the start of audio.
Init ==
    /\ general = GameGeneral
    /\ timing_points = GameTimingPoints
    /\ \E objects \in GameBeatmaps, src \in GameSources :
       \E beatmap \in {LoadedBeatmap(src, objects, GameDifficulty)} :
       \E generated \in {GeneratedCursorData(src, beatmap.hit_objects, RInt(0), FALSE)} :
        /\ generated.raised = ""
        /\ hit_objects = beatmap.hit_objects
        /\ difficulty = beatmap.difficulty
        /\ replay_events = src.replay_events
        /\ mods = src.mods
        /\ option = src.option
        /\ playstyle = src.playstyle
        /\ playstyle_choice = ChoiceOf(src.playstyle)
        /\ cursor_data =
               ShiftedCursorData(src.option,
                   DecodedCursorData(src.option, generated.cursor_data,
                                     src.replay_events, src.mods))
        /\ apply_smoothing = ~IsAutoOption(src.option)
    /\ current_time = 0
    /\ cursor_pos = NoneCursor
    /\ previous_key = 0
    /\ hitted_objects = {}
    /\ active_sliders = << >>
    /\ ticks = << >>
    /\ score = InitialScore
    /\ audio_offset = 0
    /\ clock = 0
    /\ pc = "running"
    /\ calls = << >>
    /\ started = << >>
    /\ notifications = << >>
    /\ sampled = NoSample
    /\ original = << >>
    /\ flips = 0
    /\ slider_path_cache = << >>
    /\ slider_sampled_path_cache = << >>

\* render_frame raises KeyError when a hit object it finds visible has no
\* 'object_name'.
RenderFrameRaises(time) ==
    \E i \in 1..Len(hit_objects) :
        /\ hit_objects[i].object_name = ""
        /\ RLe(RSub(RInt(hit_objects[i].time),
                    calculate_preempt(get_approach_rate(difficulty))),
               RInt(time))
        /\ RLe(RInt(time),
               RAdd(RAdd(RInt(hit_objects[i].time), hit_objects[i].slider_duration),
                    RInt(100)))

\* One pass of the loop at clock reading now: update_game_state, with the
\* handle_input_and_hits call it makes, and then render_frame.  An exception
\* ends the program with what was written before it.
update_game_state(now) ==
    \E time \in {now + audio_offset} :
    \E pos \in {interpolate_cursor_position(cursor_data, RInt(time), apply_smoothing)} :
        /\ pc = "running"
        /\ clock' = now
        /\ current_time' = time
        /\ IF pos.raised # ""
           THEN /\ pc' = "crashed"
                /\ UNCHANGED <<cursor_pos, previous_key, judgmentVars>>
           ELSE \E js \in {HandleInput(JudgmentState, time, pos, previous_key)} :
                /\ cursor_pos' = pos
                /\ hitted_objects' = js.hitted_objects
                /\ active_sliders' = js.active_sliders
                /\ ticks' = js.ticks
                /\ score' = js.score
                /\ calls' = js.calls
                /\ started' = js.started
                /\ notifications' = js.notifications
                /\ previous_key' = IF js.raised # "" THEN previous_key ELSE pos.keys
                /\ pc' = IF js.raised # "" \/ RenderFrameRaises(time)
                         THEN "crashed" ELSE "running"
        /\ UNCHANGED <<beatmapVars, loadVars, audio_offset, historyVars, skinVars>>

\* key_callback for a press or repeat of KEY_UP (direction 1) or KEY_DOWN
\* (direction -1), delivered by poll_events.
key_callback(direction) ==
    /\ pc = "running"
    /\ Abs(audio_offset + direction * OffsetStep) <= MaxAudioOffset
    /\ audio_offset' = audio_offset + direction * OffsetStep
    /\ UNCHANGED <<beatmapVars, loadVars, judgmentVars, current_time, cursor_pos,
                   previous_key, clock, pc, historyVars, skinVars>>

RenderLoop ==
    \E step \in FrameSteps :
        /\ clock + step <= MaxClock
        /\ update_game_state(clock + step)

KeyUp == key_callback(1)

KeyDown == key_callback(-1)

Next == RenderLoop \/ KeyUp \/ KeyDown

Spec == Init /\ [][Next]_vars

(***************************************************************************)
(* Properties of the frame loop (Spec)                                     *)
(***************************************************************************)
\* A step of the loop that called handle_input_and_hits and returned: the
\* offset keys were not involved and a cursor sample exists.
FrameCalled ==
    audio_offset' = audio_offset /\ pc' = "running" /\ cursor_pos' # NoneCursor

\* handle_input_and_hits run once more on the state the call left, with the
\* same current_time and the same cursor sample.
SecondCall ==
    HandleInput(JudgmentStateNext, current_time', cursor_pos', previous_key')

CallsFor(i) == {k \in 1..Len(calls) : calls[k].obj = i}

\* C1: over any sequence of frames each hit object is judged at most once:
\* a start time in hitted_objects is never removed, no object is registered
\* as an ActiveSlider twice, and no object causes more than one
\* success_hit / miss call.
C1_JudgedAtMostOnce ==
    /\ [](\A i \in 1..Len(hit_objects) :
            /\ Cardinality(CallsFor(i)) <= 1
            /\ Cardinality({k \in 1..Len(started) : started[k] = i}) <= 1)
    /\ [][hitted_objects \subseteq hitted_objects']_vars

\* A slider was started and later finalized, another judgment was made, and
\* the last frame ran at a time behind the clock (a negative audio offset).
C1_Witness ==
    /\ Len(started) = 1
    /\ CallsFor(started[1]) # {}
    /\ Len(calls) >= 2
    /\ current_time < clock

\* C2 as stated: a second call with the same current_time and cursor sample
\* leaves total_hits, combo, hitted_objects, active_sliders and every tick's
\* flags as the first call left them.
C2_SecondCallChangesNothing ==
    [][FrameCalled =>
        \A second \in {SecondCall} :
            /\ second.score.total_hits = score'.total_hits
            /\ second.score.combo = score'.combo
            /\ second.hitted_objects = hitted_objects'
            /\ second.active_sliders = active_sliders'
            /\ second.ticks = ticks']_vars

\* C2 amended: a second call with the same current_time and cursor sample
\* never changes hitted_objects; it leaves the score, active_sliders and the
\* tick flags unchanged unless the first call registered an ActiveSlider, and
\* then it changes only that slider: it processes its ticks that are due, or
\* finalizes it with one success_hit / miss for it once current_time has
\* reached its end_time.
C2_SecondCallOnlyAdvancesNewSlider ==
    [][FrameCalled =>
        \A second \in {SecondCall} :
            /\ second.hitted_objects = hitted_objects'
            /\ second.started = started'
            /\ IF started' = started
               THEN /\ second.score = score'
                    /\ second.calls = calls'
                    /\ second.active_sliders = active_sliders'
                    /\ second.ticks = ticks'
               ELSE LET s == started'[Len(started')]
                        key == hit_objects[s].time
                        finalized == second.calls # calls'
                    IN  /\ RemoveActive(second.active_sliders, key)
                             = RemoveActive(active_sliders', key)
                        /\ \A j \in DOMAIN ticks' \ {s} : second.ticks[j] = ticks'[j]
                        /\ DOMAIN second.ticks = DOMAIN ticks'
                        /\ finalized =>
                             /\ Len(second.calls) = Len(calls') + 1
                             /\ second.calls[Len(second.calls)].obj = s
                             /\ SubSeq(second.calls, 1, Len(calls')) = calls'
                             /\ Len(second.active_sliders) = Len(active_sliders') - 1
                             /\ RLe(RAdd(RInt(key), hit_objects[s].slider_duration),
                                    RInt(current_time'))
                        /\ ~finalized =>
                             /\ second.score = score'
                             /\ Len(second.active_sliders) = Len(active_sliders')]_vars

\* The last call registered a slider late enough that one of its ticks is
\* already due and still unprocessed.
C2_Witness ==
    /\ pc = "running"
    /\ cursor_pos # NoneCursor
    /\ \E k \in 1..Len(active_sliders) :
         \E n \in 1..Len(ticks[active_sliders[k].object]) :
            LET tick == ticks[active_sliders[k].object][n]
            IN  ~tick.processed /\ RLe(tick.time, RInt(current_time))

RAbs(a) == [n |-> Abs(a.n), d |-> a.d]

\* C7: the circle step.  On the circle the frame processes: without a rising
\* key edge, or with the cursor farther than the radius, nothing changes;
\* otherwise the circle is marked judged and |current_time - start_time|
\* decides the call: <= hit_window_300 success_hit(300), else <=
\* hit_window_100 success_hit(100), else <= hit_window_50 success_hit(50),
\* else miss.  An edge at current_time = start_time inside the radius gives
\* 300 and combo + 1.
C7_CircleStep ==
    [][FrameCalled =>
        \A i \in {ProcessedObject(hit_objects, hitted_objects, RInt(current_time'),
                                  calculate_preempt(get_approach_rate(difficulty)),
                                  calculate_hit_windows(get_overall_difficulty(difficulty)))} :
        (i # 0 /\ hit_objects[i].object_name = "circle") =>
        \A before \in {process_active_sliders(JudgmentState, RInt(current_time'),
                                              cursor_pos', get_circle_size(difficulty))} :
            LET obj == hit_objects[i]
                windows == calculate_hit_windows(get_overall_difficulty(difficulty))
                radius == calculate_circle_radius(get_circle_size(difficulty))
                edge == BitAndNot(cursor_pos'.keys, previous_key) # 0
                dx == RSub(cursor_pos'.x, RInt(obj.x))
                dy == RSub(cursor_pos'.y, RInt(obj.y))
                inside == RLe(RAdd(RMul(dx, dx), RMul(dy, dy)), RMul(radius, radius))
                late == RAbs(RInt(current_time' - obj.time))
                tier == IF RLe(late, windows[1]) THEN 300
                        ELSE IF RLe(late, windows[2]) THEN 100
                        ELSE IF RLe(late, windows[3]) THEN 50
                        ELSE 0
            IN  IF ~edge \/ ~inside
                THEN /\ hitted_objects' = hitted_objects
                     /\ calls' = before.calls
                     /\ score' = before.score
                ELSE /\ hitted_objects' = hitted_objects \cup {obj.time}
                     /\ calls' = Append(before.calls,
                                        [fn |-> IF tier = 0 THEN "miss" ELSE "success_hit",
                                         hitscore |-> tier, obj |-> i])
                     /\ score'.total_hits = before.score.total_hits + 1
                     /\ score'.combo = IF tier = 0 THEN 0 ELSE before.score.combo + 1
                     /\ current_time' = obj.time =>
                            tier = 300 /\ score'.combo = before.score.combo + 1]_vars

\* A key edge at current_time = start_time inside the radius of a circle was
\* just judged: success_hit(300), combo 1.
C7_Witness ==
    /\ Len(calls) >= 1
    /\ LET last == calls[Len(calls)]
       IN  /\ last.fn = "success_hit" /\ last.hitscore = 300
           /\ hit_objects[last.obj].object_name = "circle"
           /\ hit_objects[last.obj].time = current_time
    /\ score.combo = 1
    /\ cursor_pos # NoneCursor
    /\ cursor_pos.keys # 0

\* The score after the calls cs[k..] are applied to s in order.
RECURSIVE ScoreAfter(_, _, _)
ScoreAfter(s, cs, k) ==
    IF k > Len(cs) THEN s
    ELSE ScoreAfter([s EXCEPT !.total_hits = @ + 1,
                              !.combo = IF cs[k].fn = "miss" THEN 0 ELSE @ + 1],
                    cs, k + 1)

\* C9: total_hits never decreases and grows by 1 per success_hit / miss
\* call; combo grows by 1 on success_hit and is 0 right after a miss; nothing
\* but those calls, made from the judgment step, changes either.
C9_ScoreBookkeeping ==
    /\ [](score.total_hits = Len(calls))
    /\ [][/\ Len(calls') >= Len(calls)
          /\ SubSeq(calls', 1, Len(calls)) = calls
          /\ score' = ScoreAfter(score, SubSeq(calls', Len(calls) + 1, Len(calls')), 1)
          /\ score'.total_hits >= score.total_hits
          /\ (calls' # calls /\ calls'[Len(calls')].fn = "miss") => score'.combo = 0
          /\ audio_offset' # audio_offset => score' = score /\ calls' = calls]_vars

\* A success_hit was followed by a miss: two hits counted, combo back at 0.
C9_Witness ==
    /\ \E k \in 1..(Len(calls) - 1) :
         calls[k].fn = "success_hit" /\ calls[k + 1].fn = "miss"
    /\ calls[Len(calls)].fn = "miss"
    /\ score.combo = 0
    /\ score.total_hits = Len(calls)


\* The notifications sent for object i.
NotificationsFor(i) ==
    {notifications[n] : n \in {m \in 1..Len(notifications) : notifications[m].obj = i}}

\* C15: every judgment is signalled to the renderer with the judged object
\* and the tier computed for it: a success_hit(tier) as a hit notification
\* carrying that tier, a miss as a miss notification and not as a hit.
C15_NotificationsCarryTier ==
    \A k \in 1..Len(calls) :
        IF calls[k].fn = "success_hit"
        THEN [fn |-> "on_object_hit", obj |-> calls[k].obj, score |-> calls[k].hitscore]
                 \in NotificationsFor(calls[k].obj)
        ELSE /\ \E n \in NotificationsFor(calls[k].obj) : n.fn = "on_player_miss"
             /\ \A n \in NotificationsFor(calls[k].obj) : n.fn # "on_object_hit"

HitWindow50 == calculate_hit_windows(get_overall_difficulty(difficulty))[3]

\* The objects whose circle or slider-head judgment the step made.
HeadJudged ==
    {i \in 1..Len(hit_objects) :
        /\ hit_objects[i].time \in hitted_objects' \ hitted_objects
        /\ \/ \E n \in (Len(calls) + 1)..Len(calls') : calls'[n].obj = i
           \/ \E n \in (Len(started) + 1)..Len(started') : started'[n] = i}

\* The objects not judged before the step whose 50 window has started at
\* the step's current_time.
DueUnjudged ==
    {k \in 1..Len(hit_objects) :
        /\ hit_objects[k].time \notin hitted_objects
        /\ RLe(RSub(RInt(hit_objects[k].time), HitWindow50), RInt(current_time'))}

\* C16: a frame judges the circle or slider head of at most one object, and
\* no object later in the beatmap than an unjudged object whose 50 window
\* has started, whatever that earlier object's type and age.
C16_EarliestFirst ==
    [][FrameCalled =>
          /\ Cardinality(HeadJudged) <= 1
          /\ \A j \in HeadJudged : \A k \in DueUnjudged : j <= k]_vars

\* A frame at which glfw.get_time() has moved on: among the steps of Next
\* these are the update_game_state(clock + step) steps with step > 0, the
\* only ones that change clock.  The loop runs until the window is closed
\* and the clock advances in real time, so such frames keep coming while
\* the program runs.
AdvancingFrame ==
    /\ pc = "running"
    /\ \E step \in FrameSteps \ {0} :
        /\ clock + step <= MaxClock
        /\ clock' = clock + step

\* The runs followed to their end: the beatmaps without sliders, under Auto
\* play and under three replays (a press on the first circle, one beside
\* it, and one late).
LiveReplays ==
    {FramesOf(HoldAt(175, 225, 100)),
     FramesOf(HoldAt(175, 225, 160)),
     FramesOf(HoldAt(350, 400, 100))}

InitLive ==
    /\ Init
    /\ \A i \in 1..Len(hit_objects) : hit_objects[i].object_name # "slider"
    /\ option = "auto" \/ replay_events \in LiveReplays

SpecLive == InitLive /\ [][Next]_vars /\ WF_clock(AdvancingFrame)

\* The most hit objects a beatmap of GameBeatmaps has.
MaxGameObjects == 2

\* Circle i's 50 window has passed at the last frame.
Expired(i) ==
    /\ i <= Len(hit_objects)
    /\ hit_objects[i].object_name = "circle"
    /\ RLt(RAdd(RInt(hit_objects[i].time), HitWindow50), RInt(current_time))

UnjudgedStaysUnjudgedOnceInvisible ==
    [][\A i \in 1..Len(hit_objects) :
          (current_time' > hit_objects[i].time + FadeOut
              /\ hit_objects[i].time \notin hitted_objects)
          => hit_objects[i].time \notin hitted_objects']_vars

\* C18: the slider head step.  On the slider the frame processes: without a
\* rising key edge nothing changes; with one and the cursor farther from the
\* head than the radius, the slider is marked judged with miss() and no
\* ActiveSlider is created; else if |current_time - start_time| <=
\* hit_window_50 an ActiveSlider with end_time = start_time + slider_duration
\* and missed_ticks = 0 is registered, the slider is marked judged and the
\* score is unchanged; else the slider is marked judged with miss().
C18_SliderHeadStep ==
    [][FrameCalled =>
        \A i \in {ProcessedObject(hit_objects, hitted_objects, RInt(current_time'),
                                  calculate_preempt(get_approach_rate(difficulty)),
                                  calculate_hit_windows(get_overall_difficulty(difficulty)))} :
        (i # 0 /\ hit_objects[i].object_name = "slider") =>
        \A before \in {process_active_sliders(JudgmentState, RInt(current_time'),
                                              cursor_pos', get_circle_size(difficulty))} :
            LET obj == hit_objects[i]
                radius == calculate_circle_radius(get_circle_size(difficulty))
                edge == BitAndNot(cursor_pos'.keys, previous_key) # 0
                dx == RSub(cursor_pos'.x, RInt(obj.x))
                dy == RSub(cursor_pos'.y, RInt(obj.y))
                inside == RLe(RAdd(RMul(dx, dx), RMul(dy, dy)), RMul(radius, radius))
                late == RAbs(RInt(current_time' - obj.time))
                missed == /\ hitted_objects' = hitted_objects \cup {obj.time}
                          /\ calls' = Append(before.calls,
                                             [fn |-> "miss", hitscore |-> 0, obj |-> i])
                          /\ score'.total_hits = before.score.total_hits + 1
                          /\ score'.combo = 0
                          /\ started' = started
                          /\ active_sliders' = before.active_sliders
                          /\ \A k \in 1..Len(active_sliders') : active_sliders'[k].object # i
            IN  IF ~edge
                THEN /\ hitted_objects' = hitted_objects
                     /\ calls' = before.calls
                     /\ score' = before.score
                     /\ started' = started
                     /\ active_sliders' = before.active_sliders
                ELSE IF ~inside THEN missed
                ELSE IF RLe(late, HitWindow50)
                THEN /\ hitted_objects' = hitted_objects \cup {obj.time}
                     /\ calls' = before.calls
                     /\ score' = before.score
                     /\ started' = Append(started, i)
                     /\ Len(active_sliders') = Len(before.active_sliders) + 1
                     /\ LET info == active_sliders'[Len(active_sliders')]
                        IN  /\ info.object = i
                            /\ info.start_time = obj.time
                            /\ info.end_time = RAdd(RInt(obj.time), obj.slider_duration)
                            /\ info.missed_ticks = 0
                ELSE missed]_vars

\* A slider head was just hit inside its 50 window: the slider is active
\* with no missed tick, judged, and nothing was scored.
C18_Witness ==
    /\ started # << >>
    /\ Len(active_sliders) = 1
    /\ active_sliders[1].object = started[Len(started)]
    /\ active_sliders[1].missed_ticks = 0
    /\ active_sliders[1].end_time
           = RAdd(RInt(active_sliders[1].start_time),
                  hit_objects[active_sliders[1].object].slider_duration)
    /\ active_sliders[1].start_time \in hitted_objects
    /\ calls = << >>
    /\ score = InitialScore
    /\ cursor_pos # NoneCursor
    /\ BitAndNot(cursor_pos.keys, 0) # 0
    /\ RLe(RAbs(RInt(current_time - active_sliders[1].start_time)), HitWindow50)

\* The calls the step made for object i.
NewCallsFor(i) == {n \in (Len(calls) + 1)..Len(calls') : calls'[n].obj = i}

\* The call that finalizes an ActiveSlider.
FinalCall(info) ==
    IF info.missed_ticks = 0
    THEN [fn |-> "success_hit", hitscore |-> 300, obj |-> info.object]
    ELSE IF info.missed_ticks < info.total_ticks
    THEN [fn |-> "success_hit", hitscore |-> 100, obj |-> info.object]
    ELSE [fn |-> "miss", hitscore |-> 0, obj |-> info.object]

\* What a frame does to a slider that is active when the frame starts: at
\* current_time >= end_time one call, FinalCall, and the slider leaves
\* active_sliders; before that no call and the slider stays.
FinalizedWhenDue(info) ==
    IF RLe(info.end_time, RInt(current_time'))
    THEN /\ \A m \in 1..Len(active_sliders') : active_sliders'[m].object # info.object
         /\ Cardinality(NewCallsFor(info.object)) = 1
         /\ \A n \in NewCallsFor(info.object) : calls'[n] = FinalCall(info)
    ELSE /\ \E m \in 1..Len(active_sliders') : active_sliders'[m].object = info.object
         /\ NewCallsFor(info.object) = {}

\* An object that is not active and has been scored is not scored again.
ScoredOnce ==
    \A i \in 1..Len(hit_objects) :
        (CallsFor(i) # {} /\ \A k \in 1..Len(active_sliders) : active_sliders[k].object # i)
            => /\ NewCallsFor(i) = {}
               /\ \A m \in 1..Len(active_sliders') : active_sliders'[m].object # i

\* C19 as stated: every ActiveSlider is finalized, once, in the first frame
\* with current_time >= end_time and removed in that frame (success_hit(300)
\* for no missed tick, also with zero ticks; success_hit(100) for some but
\* not all ticks missed; else miss()), and never finalized or scored again.
\* So no frame ends with a slider in active_sliders whose end_time has come.
C19_FinalizedOnFirstDueFrame ==
    [][FrameCalled =>
          /\ \A k \in 1..Len(active_sliders) : FinalizedWhenDue(active_sliders[k])
          /\ ScoredOnce
          /\ \A m \in 1..Len(active_sliders') :
                ~RLe(active_sliders'[m].end_time, RInt(current_time'))]_vars

\* C19, amended: every slider that is in active_sliders when a frame starts
\* is finalized, once, by the first such frame with current_time >= end_time
\* and removed in that frame, with the call FinalCall; it is never finalized
\* or scored again.  (A slider registered by a frame whose current_time is
\* already at or past end_time is finalized by the next frame.)
C19_FinalizedOnFirstDueFrameStartedActive ==
    [][FrameCalled =>
          /\ \A k \in 1..Len(active_sliders) : FinalizedWhenDue(active_sliders[k])
          /\ ScoredOnce]_vars

\* A slider with no ticks was just finalized with success_hit(300) and
\* removed.
C19_Witness ==
    /\ Len(calls) >= 1
    /\ calls[Len(calls)] = [fn |-> "success_hit", hitscore |-> 300,
                            obj |-> calls[Len(calls)].obj]
    /\ calls[Len(calls)].obj \in {started[k] : k \in 1..Len(started)}
    /\ calls[Len(calls)].obj \in DOMAIN ticks
    /\ ticks[calls[Len(calls)].obj] = << >>
    /\ active_sliders = << >>

\* The tick as the step's frame leaves it when it processes it: hit iff the
\* cursor is within the radius of the tick and a key is held.
ProcessedTick(tick) ==
    LET radius == calculate_circle_radius(get_circle_size(difficulty))
        dx == RSub(cursor_pos'.x, tick.position.x)
        dy == RSub(cursor_pos'.y, tick.position.y)
    IN  Tick(tick.time, tick.position, TRUE,
             /\ RLe(RAdd(RMul(dx, dx), RMul(dy, dy)), RMul(radius, radius))
             /\ BitAnd(cursor_pos'.keys, KeyMask) # 0)

\* What a frame with current_time < end_time does to the ticks of a slider
\* that is active when the frame starts: each unprocessed tick with
\* tick.time <= current_time becomes ProcessedTick, the others stay, and
\* missed_ticks grows by the number of ticks processed as not hit.
TicksTracked(info) ==
    LET i == info.object
        due == {n \in 1..Len(ticks[i]) :
                   ~ticks[i][n].processed /\ RLe(ticks[i][n].time, RInt(current_time'))}
    IN  ~RLe(info.end_time, RInt(current_time')) =>
            /\ Len(ticks'[i]) = Len(ticks[i])
            /\ \A n \in 1..Len(ticks[i]) :
                  ticks'[i][n] = IF n \in due THEN ProcessedTick(ticks[i][n]) ELSE ticks[i][n]
            /\ \E m \in 1..Len(active_sliders') :
                  /\ active_sliders'[m].object = i
                  /\ active_sliders'[m].missed_ticks
                         = info.missed_ticks
                               + Cardinality({n \in due : ~ProcessedTick(ticks[i][n]).hit})

\* A processed tick never changes, and missed_ticks changes only as
\* TicksTracked says.
ProcessedTicksFrozen ==
    /\ \A i \in DOMAIN ticks :
          /\ i \in DOMAIN ticks'
          /\ \A n \in 1..Len(ticks[i]) : ticks[i][n].processed => ticks'[i][n] = ticks[i][n]
    /\ \A m \in 1..Len(active_sliders') :
          \/ \E k \in 1..Len(active_sliders) :
                /\ active_sliders[k].object = active_sliders'[m].object
                /\ ~RLe(active_sliders[k].end_time, RInt(current_time'))
          \/ active_sliders'[m].missed_ticks = 0

\* C20 as stated: while a slider is active (current_time < end_time) each
\* unprocessed tick with tick.time <= current_time is processed in that
\* frame (hit iff the cursor is within the radius and a key is held, else
\* missed_ticks + 1), and a processed tick never changes.  So no frame with
\* current_time < end_time ends with an active slider that has an
\* unprocessed tick with tick.time <= current_time.
C20_DueTicksProcessed ==
    [][FrameCalled =>
          /\ \A k \in 1..Len(active_sliders) : TicksTracked(active_sliders[k])
          /\ ProcessedTicksFrozen
          /\ \A m \in 1..Len(active_sliders') :
                ~RLe(active_sliders'[m].end_time, RInt(current_time')) =>
                    \A n \in 1..Len(ticks'[active_sliders'[m].object]) :
                        LET tick == ticks'[active_sliders'[m].object][n]
                        IN  tick.processed \/ ~RLe(tick.time, RInt(current_time'))]_vars

\* C20, amended: for a slider that is in active_sliders when the frame
\* starts, in a frame with current_time < end_time each unprocessed tick
\* with tick.time <= current_time is processed in that frame (hit iff the
\* cursor is within the radius and a key is held, else missed_ticks + 1);
\* a processed tick never changes.  (The frame that registers the slider
\* leaves its ticks unprocessed, whatever their time.)
C20_DueTicksProcessedOnceActive ==
    [][FrameCalled =>
          /\ \A k \in 1..Len(active_sliders) : TicksTracked(active_sliders[k])
          /\ ProcessedTicksFrozen]_vars

\* An active slider has a tick that the last frame processed as missed with
\* the cursor on the tick and no key held, counted once.
C20_Witness ==
    /\ Len(active_sliders) = 1
    /\ ~RLe(active_sliders[1].end_time, RInt(current_time))
    /\ active_sliders[1].missed_ticks = 1
    /\ cursor_pos # NoneCursor
    /\ BitAnd(cursor_pos.keys, KeyMask) = 0
    /\ \E n \in 1..Len(ticks[active_sliders[1].object]) :
          /\ ticks[active_sliders[1].object][n].processed
          /\ ~ticks[active_sliders[1].object][n].hit
          /\ ticks[active_sliders[1].object][n].time = RInt(current_time)
          /\ ticks[active_sliders[1].object][n].position.x = cursor_pos.x
          /\ ticks[active_sliders[1].object][n].position.y = cursor_pos.y

\* The largest tick index k looked at for a repeat.
MaxTickIndex == 4

\* tick_distance = (beat_length / tick_rate) * slider_multiplier *
\* slider_velocity at the slider's start.
TickDistance(obj) ==
    LET timing == get_timing_at(timing_points, RInt(obj.time))
    IN  RMul(RMul(RDiv(timing.beat_length, difficulty["SliderTickRate"]),
                  difficulty["SliderMultiplier"]),
             timing.slider_velocity)

\* The <<r, k>> with a tick: repeat r and index k with k * tick_distance
\* short of the path's length.
TickPlaces(obj) ==
    {place \in (0..(obj.slides - 1)) \X (1..MaxTickIndex) :
        RLt(RMul(RInt(place[2]), TickDistance(obj)), obj.length)}

\* The tick of repeat r and index k: its progress, time and state.
TickAt(obj, r, k) ==
    LET forward == RDiv(RMul(RInt(k), TickDistance(obj)), obj.length)
        p == IF r % 2 = 0 THEN forward ELSE RSub(RInt(1), forward)
    IN  Tick(RAdd(RInt(obj.time),
                  RMul(RDiv(obj.slider_duration, RInt(obj.slides)), RAdd(RInt(r), p))),
             get_slider_position_at(obj, p), FALSE, FALSE)

TicksAsStated(obj, computed) ==
    /\ Len(computed) = Cardinality(TickPlaces(obj))
    /\ \A place \in TickPlaces(obj) :
         Cardinality({n \in 1..Len(computed) :
                         computed[n] = TickAt(obj, place[1], place[2])}) = 1
    /\ \A n \in 1..Len(computed) :
         /\ ~computed[n].processed
         /\ ~computed[n].hit
         /\ RLt(RInt(obj.time), computed[n].time)
         /\ RLt(computed[n].time, RAdd(RInt(obj.time), obj.slider_duration))

\* C23: compute_slider_ticks returns, for every repeat r and every k >= 1
\* with k * tick_distance < length, exactly one tick, at progress
\* k * tick_distance / length on even r and 1 minus that on odd r, at time
\* start + (duration / repeats) * (r + progress), unprocessed and not hit,
\* strictly between the slider's start and end.
C23_TicksPerRepeat ==
    [][\A i \in 1..MaxGameObjects :
          (i \in DOMAIN ticks' /\ i \notin DOMAIN ticks) =>
              TicksAsStated(hit_objects[i], ticks'[i])]_vars

\* A slider with a repeat has its ticks, two of them in a repeat.
C23_Witness ==
    \E i \in DOMAIN ticks :
        /\ hit_objects[i].slides = 2
        /\ Len(ticks[i]) = 4
        /\ \A n \in 1..Len(ticks[i]) : ~ticks[i][n].processed

\* The ticks of the active slider info that were processed as missed.
MissedTicks(info) ==
    {n \in 1..Len(ticks[info.object]) :
        ticks[info.object][n].processed /\ ~ticks[info.object][n].hit}

\* C26: every key of active_sliders is in hitted_objects and is a slider's,
\* and every active slider's missed_ticks is the number of its ticks with
\* processed = true and hit = false, between 0 and total_ticks, the number
\* of its ticks.
C26_ActiveSlidersConsistent ==
    \A m \in 1..Len(active_sliders) :
        LET info == active_sliders[m] IN
        /\ info.start_time \in hitted_objects
        /\ hit_objects[info.object].object_name = "slider"
        /\ hit_objects[info.object].time = info.start_time
        /\ info.object \in DOMAIN ticks
        /\ info.missed_ticks = Cardinality(MissedTicks(info))
        /\ info.total_ticks = Len(ticks[info.object])
        /\ 0 <= info.missed_ticks
        /\ info.missed_ticks <= info.total_ticks

\* An active slider with a missed tick and a hit one.
C26_Witness ==
    \E m \in 1..Len(active_sliders) :
        /\ active_sliders[m].missed_ticks >= 1
        /\ \E n \in 1..Len(ticks[active_sliders[m].object]) :
             ticks[active_sliders[m].object][n].hit

\* Slider i has been finalized with success_hit(300).
Finalized300(i) ==
    /\ hit_objects[i].object_name = "slider"
    /\ \E n \in 1..Len(calls) :
         calls[n] = [fn |-> "success_hit", hitscore |-> 300, obj |-> i]

\* C27: whatever the frame times, a slider is finalized with tier 300 only
\* if every one of its ticks has been processed and marked hit; at
\* finalization no tick is still unprocessed.
C27_Tier300NeedsEveryTick ==
    \A i \in DOMAIN ticks :
        Finalized300(i) =>
            \A n \in 1..Len(ticks[i]) : ticks[i][n].processed /\ ticks[i][n].hit

\* The same for the frames that come at most 25 ms apart from the slider's
\* start on: sliders finalized 300 whose ticks were all passed by a frame.
Finalized300AfterEveryTick ==
    \A i \in DOMAIN ticks :
        (Finalized300(i) /\ \A n \in 1..Len(ticks[i]) : ticks[i][n].processed) =>
            \A n \in 1..Len(ticks[i]) : ticks[i][n].hit

\* The loop is driven by the trajectory of generate_auto_play_cursor_data.
AutoDriven == IsAutoOption(option) /\ playstyle = "Auto"

\* The key bits of the frame that are not in previous_key.
RisingEdge == BitAnd(cursor_pos'.keys, KeyMask - BitAnd(previous_key, KeyMask)) # 0

\* C30: driven by an Auto trajectory from previous_key = 0, every frame
\* samples keys = 1, a rising key edge occurs on the first frame only, at
\* most one hit object is ever marked judged and total_hits never exceeds 1.
C30_AutoJudgesAtMostOne ==
    /\ [](AutoDriven =>
            /\ Cardinality(hitted_objects) <= 1
            /\ score.total_hits <= 1)
    /\ [][(AutoDriven /\ FrameCalled) =>
            /\ cursor_pos'.keys = 1
            /\ RisingEdge => cursor_pos = NoneCursor]_vars

\* An Auto run whose first frame started a slider that a later frame
\* finalized: one object judged, one hit counted, the key still down.
C30_Witness ==
    /\ AutoDriven
    /\ pc = "running"
    /\ Cardinality(hitted_objects) = 1
    /\ score.total_hits = 1
    /\ previous_key = 1
    /\ current_time > 400

(***************************************************************************)
(* Loading and sampling a trajectory: load_resources, the cursor part of   *)
(* initialize_game_state, and interpolate_cursor_position on the result    *)
(***************************************************************************)
\* Bounds of the trajectory inputs.
MaxFrames == 3

QueryWindow == 8

\* Beatmaps whose hit objects are in increasing start-time order.
TrajBeatmaps ==
    {<<Circle(100, 100, 1000)>>,
     <<Circle(100, 100, 1000), Circle(100, 100, 1200)>>,
     <<Circle(100, 100, 1000), Circle(300, 100, 1010)>>,
     <<SliderAt(1000, 1, 100)>>,
     <<SliderAt(1000, 1, 100), Circle(200, 100, 1120)>>,
     <<SliderAt(1000, 1, 5)>>,
     <<SliderAt(1000, 1, 20), Circle(200, 100, 1025), Circle(300, 100, 1040)>>,
     <<Spinner(256, 192, 1000, 1500), Circle(256, 192, 1600)>>}

\* The frames a replay is made of, and the replays of up to MaxFrames frames.
TrajFrames ==
    {Frame(-5, RInt(3), RInt(4), 1), Frame(0, RInt(7), RInt(7), 2),
     Frame(10, RInt(100), RInt(100), 1), Frame(16, RInt(160), RInt(40), 0),
     Frame(10, RInt(40), RInt(300), 4)}

TrajReplays == UNION {[1..n -> TrajFrames] : n \in 0..MaxFrames}

TrajSources ==
    {[option |-> "replay.osr", playstyle |-> "", replay_events |-> r, mods |-> m] :
        r \in TrajReplays, m \in {0, ModHardRock}}
    \cup {[option |-> o, playstyle |-> p, replay_events |-> << >>, mods |-> 0] :
            o \in {"auto", "AUTO"}, p \in {"Auto", "Dancer", "Other"}}

\* dancing_degree and alternate_curve_direction as load_resources reads them.
DancerSettings == {<<RInt(0), FALSE>>, <<Rat(1, 2), TRUE>>}

InitTraj ==
    /\ general = GameGeneral
    /\ difficulty = GameDifficulty
    /\ timing_points = GameTimingPoints
    /\ \E src \in TrajSources :
        /\ hit_objects \in (IF IsAutoOption(src.option) THEN TrajBeatmaps
                            ELSE {<<SliderAt(1000, 1, 100), Circle(200, 100, 1120)>>})
        /\ replay_events = src.replay_events
        /\ mods = src.mods
        /\ option = src.option
        /\ playstyle = src.playstyle
        /\ playstyle_choice = ChoiceOf(src.playstyle)
    /\ cursor_data = << >>
    /\ apply_smoothing = FALSE
    /\ current_time = 0
    /\ cursor_pos = NoneCursor
    /\ previous_key = 0
    /\ hitted_objects = {}
    /\ active_sliders = << >>
    /\ ticks = << >>
    /\ score = InitialScore
    /\ audio_offset = 0
    /\ clock = 0
    /\ pc = "load"
    /\ calls = << >>
    /\ started = << >>
    /\ notifications = << >>
    /\ sampled = NoSample
    /\ original = << >>
    /\ flips = 0
    /\ slider_path_cache = << >>
    /\ slider_sampled_path_cache = << >>

gameVars == <<judgmentVars, frameVars>>

\* load_resources: the trajectory is generated, or the replay's mods are
\* applied to the beatmap.
load_resources ==
    /\ pc = "load"
    /\ \E src \in {[option |-> option, playstyle |-> playstyle,
                    replay_events |-> replay_events, mods |-> mods]} :
       \E setting \in DancerSettings :
       \E beatmap \in {LoadedBeatmap(src, hit_objects, difficulty)} :
       \E generated \in {GeneratedCursorData(src, hit_objects, setting[1], setting[2])} :
        /\ hit_objects' = beatmap.hit_objects
        /\ difficulty' = beatmap.difficulty
        /\ cursor_data' = generated.cursor_data
        /\ apply_smoothing' = ~(IsAutoOption(option) /\ playstyle = "Auto")
        /\ pc' = IF generated.raised # "" THEN "failed" ELSE "resources"
    /\ UNCHANGED <<general, timing_points, replay_events, mods, option, playstyle,
                   playstyle_choice, gameVars, historyVars, skinVars>>

\* initialize_game_state, lines 526-533: cursor_data is taken or decoded.
decode_cursor_data ==
    /\ pc = "resources"
    /\ cursor_data' = DecodedCursorData(option, cursor_data, replay_events, mods)
    /\ pc' = "decoded"
    /\ UNCHANGED <<beatmapVars, replay_events, mods, option, playstyle,
                   playstyle_choice, apply_smoothing, gameVars, historyVars, skinVars>>

\* initialize_game_state, lines 536-541: the OFFSET shift.  The events are
\* changed in place, so a sample taken before is of a list that is no more.
shift_cursor_data ==
    /\ pc = "decoded"
    /\ cursor_data' = ShiftedCursorData(option, cursor_data)
    /\ pc' = "ready"
    /\ sampled' = NoSample
    /\ UNCHANGED <<beatmapVars, replay_events, mods, option, playstyle,
                   playstyle_choice, apply_smoothing, gameVars, original, flips, skinVars>>

IsNumber(v) == DOMAIN v = {"n", "d"}

\* Every position of the trajectory is a number (no unevaluated arc/Bezier).
IsNumeric(data) ==
    \A k \in 1..Len(data) : IsNumber(data[k].x) /\ IsNumber(data[k].y)

\* The query times tried on a trajectory: around its first and its last
\* QueryWindow events, the event times, the midpoints of adjacent events,
\* and one millisecond outside either end.
QueryTimes(data) ==
    LET near == {k \in 1..Len(data) : k <= QueryWindow \/ k > Len(data) - QueryWindow}
    IN  {data[k].time : k \in near}
        \cup {RDiv(RAdd(data[k].time, data[k + 1].time), RInt(2)) :
                k \in {j \in near : j < Len(data)}}
        \cup {RSub(data[1].time, RInt(1)), RAdd(data[Len(data)].time, RInt(1))}

\* The calls of interpolate_cursor_position tried: <<time, apply_smoothing>>.
Queries(data) ==
    IF Len(data) = 0 THEN {<<RInt(0), FALSE>>}
    ELSE IF IsNumeric(data) THEN QueryTimes(data) \X BOOLEAN
    ELSE {}

\* interpolate_cursor_position(cursor_data, t, smoothing) for a query.  The
\* function reads nothing but its arguments, so one recorded sample per
\* trajectory state covers every call.
sample_cursor ==
    /\ pc \in {"decoded", "ready"}
    /\ sampled = NoSample
    /\ \E query \in Queries(cursor_data) :
         sampled' = [t |-> query[1], smoothing |-> query[2],
                     result |-> interpolate_cursor_position(cursor_data, query[1],
                                                            query[2])]
    /\ UNCHANGED <<beatmapVars, loadVars, gameVars, pc, original, flips, skinVars>>

NextTraj == load_resources \/ decode_cursor_data \/ shift_cursor_data \/ sample_cursor

SpecTraj == InitTraj /\ [][NextTraj]_vars

(***************************************************************************)
(* Beatmap.apply_hard_rock_mod on a parsed beatmap                         *)
(***************************************************************************)
MaxFlips == 4

\* Parsed beatmaps: a circle, a slider with two control points, a spinner.
HardRockBeatmaps ==
    {<<Circle(64, y1, 100),
       Slider(100, y2, 300, "B", <<Point(RInt(150), cy), Point(RInt(200), RInt(y2))>>,
              2, RInt(120), RInt(240)),
       Spinner(256, 192, 900, 1500)>> :
        y1 \in {0, 100, 384}, y2 \in {50, 192}, cy \in {RInt(10), Rat(385, 2)}}

HardRockDifficulties ==
    {GameDifficulty,
     [GameDifficulty EXCEPT !["CircleSize"] = RInt(8), !["OverallDifficulty"] = Rat(15, 2)],
     [k \in {"SliderMultiplier", "SliderTickRate"} |-> GameDifficulty[k]]}

HardRockTimingPoints ==
    <<TimingPoint(RInt(0), RInt(100), 1), TimingPoint(RInt(250), RInt(-50), 0)>>

InitHR ==
    /\ general = GameGeneral
    /\ hit_objects \in HardRockBeatmaps
    /\ difficulty \in HardRockDifficulties
    /\ timing_points = HardRockTimingPoints
    /\ original = [hit_objects |-> hit_objects, timing_points |-> timing_points]
    /\ flips = 0
    /\ slider_path_cache = << >>
    /\ slider_sampled_path_cache = << >>
    /\ replay_events = << >>
    /\ mods = ModHardRock
    /\ option = "replay.osr"
    /\ playstyle = ""
    /\ playstyle_choice = ""
    /\ cursor_data = << >>
    /\ apply_smoothing = TRUE
    /\ current_time = 0
    /\ cursor_pos = NoneCursor
    /\ previous_key = 0
    /\ hitted_objects = {}
    /\ active_sliders = << >>
    /\ ticks = << >>
    /\ score = InitialScore
    /\ audio_offset = 0
    /\ clock = 0
    /\ pc = "parsed"
    /\ calls = << >>
    /\ started = << >>
    /\ notifications = << >>
    /\ sampled = NoSample

\* Beatmap.apply_hard_rock_mod.
apply_hard_rock_mod ==
    /\ flips < MaxFlips
    /\ difficulty' = HardRockDifficulty(difficulty)
    /\ hit_objects' = HardRockObjects(hit_objects)
    /\ flips' = flips + 1
    /\ UNCHANGED <<general, timing_points, loadVars, gameVars, pc, sampled, original, skinVars>>

NextHR == apply_hard_rock_mod

SpecHR == InitHR /\ [][NextHR]_vars

(***************************************************************************)
(* Properties of loading and sampling (SpecTraj)                           *)
(***************************************************************************)
Sampled == pc \in {"decoded", "ready"} /\ sampled # NoSample

NonDecreasing(data) ==
    \A k \in 1..(Len(data) - 1) : RLe(data[k].time, data[k + 1].time)

\* C3: without smoothing, for adjacent events A, B with A.time < B.time that
\* are the first pair bracketing T, the sample at T has
\* x = A.x + (T - A.time) / (B.time - A.time) * (B.x - A.x), y likewise, and
\* the keys of B.
C3_LinearBlend ==
    (Sampled /\ ~sampled.smoothing) =>
        \A i \in BracketingPairs(cursor_data, sampled.t) :
            LET A == cursor_data[i]
                B == cursor_data[i + 1]
                T == sampled.t
                span == RSub(B.time, A.time)
                part == RSub(T, A.time)
            IN  ((\A j \in BracketingPairs(cursor_data, T) : i <= j)
                 /\ RLt(A.time, B.time)) =>
                    /\ sampled.result.raised = ""
                    /\ RMul(RSub(sampled.result.x, A.x), span) = RMul(part, RSub(B.x, A.x))
                    /\ RMul(RSub(sampled.result.y, A.y), span) = RMul(part, RSub(B.y, A.y))
                    /\ sampled.result.keys = B.keys

\* A sample without smoothing strictly inside a pair whose events differ in
\* x and in keys.
C3_Witness ==
    /\ Sampled /\ ~sampled.smoothing
    /\ \E i \in BracketingPairs(cursor_data, sampled.t) :
         /\ RLt(cursor_data[i].time, sampled.t)
         /\ RLt(sampled.t, cursor_data[i + 1].time)
         /\ cursor_data[i].x # cursor_data[i + 1].x
         /\ cursor_data[i].keys # cursor_data[i + 1].keys
         /\ sampled.result.keys = cursor_data[i + 1].keys
         /\ sampled.result.x # cursor_data[i].x

\* C4 as stated (sampling without smoothing): in a time-ordered sequence,
\* for every event A followed by an adjacent B with A.time < B.time, the
\* first event included, the sample at A.time has A's x, y and keys, and the
\* sample at B.time has B's keys.
C4_SampleAtEventTimes ==
    (Sampled /\ ~sampled.smoothing /\ NonDecreasing(cursor_data)) =>
        \A i \in 1..(Len(cursor_data) - 1) :
            LET A == cursor_data[i]
                B == cursor_data[i + 1]
            IN  RLt(A.time, B.time) =>
                    /\ sampled.t = A.time =>
                           sampled.result = Returned(A.x, A.y, A.keys)
                    /\ sampled.t = B.time =>
                           sampled.result.raised = "" /\ sampled.result.keys = B.keys

\* C4 amended: in a time-ordered sequence, for every event A followed by an
\* adjacent B with A.time < B.time, where A is the first event or follows a
\* strictly earlier one: the sample at A.time without smoothing has A's x
\* and y; its keys are A's when A has a predecessor and B's when A is the
\* first event; and the sample at B.time has B's keys.
C4_SampleAtEventTimesAmended ==
    (Sampled /\ NonDecreasing(cursor_data)) =>
        \A i \in 1..(Len(cursor_data) - 1) :
            LET A == cursor_data[i]
                B == cursor_data[i + 1]
            IN  RLt(A.time, B.time) =>
                    /\ (sampled.t = A.time
                        /\ (i = 1 \/ RLt(cursor_data[i - 1].time, A.time))) =>
                           /\ sampled.result.raised = ""
                           /\ ~sampled.smoothing =>
                                  sampled.result.x = A.x /\ sampled.result.y = A.y
                           /\ sampled.result.keys = IF i = 1 THEN B.keys ELSE A.keys
                    /\ sampled.t = B.time =>
                           sampled.result.raised = "" /\ sampled.result.keys = B.keys

\* A sample without smoothing at the time of the first event of an ordered
\* sequence whose second event is later and has other keys: the position is
\* the first event's, the keys are the second's.
C4_Witness ==
    /\ Sampled /\ ~sampled.smoothing
    /\ Len(cursor_data) >= 2
    /\ NonDecreasing(cursor_data)
    /\ sampled.t = cursor_data[1].time
    /\ RLt(cursor_data[1].time, cursor_data[2].time)
    /\ cursor_data[1].keys # cursor_data[2].keys
    /\ sampled.result = Returned(cursor_data[1].x, cursor_data[1].y, cursor_data[2].keys)

\* C5: for every non-empty event sequence and every T later than the last
\* event's time, the sample at T is the last event's x, y and keys, with or
\* without smoothing.
C5_ClampToLast ==
    (Sampled /\ Len(cursor_data) > 0
     /\ RLt(cursor_data[Len(cursor_data)].time, sampled.t)) =>
        LET last_event == cursor_data[Len(cursor_data)]
        IN  sampled.result = Returned(last_event.x, last_event.y, last_event.keys)

\* The frames with a positive delta, and the sum of the positive deltas of
\* the frames up to frame i.
PositiveFrames(frames) == {i \in 1..Len(frames) : frames[i].time_delta > 0}

RECURSIVE PositiveDeltaSum(_, _)
PositiveDeltaSum(frames, i) ==
    IF i = 0 THEN 0
    ELSE PositiveDeltaSum(frames, i - 1)
         + (IF frames[i].time_delta > 0 THEN frames[i].time_delta ELSE 0)

\* C6: get_cursor_positions emits nothing for a frame with time_delta <= 0
\* and adds nothing to the running time; each frame with time_delta > 0
\* emits one event whose time is the sum of the positive deltas up to it.
\* The frames [(-5), (10, 100, 100, 1)] give one event at time 10, and the
\* output times are strictly increasing.
C6_ReplayDecoding ==
    (pc = "decoded" /\ ~IsAutoOption(option)) =>
        LET positive == PositiveFrames(replay_events)
        IN  /\ Len(cursor_data) = Cardinality(positive)
            /\ \A i \in positive :
                 LET k == Cardinality({j \in positive : j <= i})
                 IN  /\ cursor_data[k].time = RInt(PositiveDeltaSum(replay_events, i))
                     /\ cursor_data[k].x = replay_events[i].x
                     /\ cursor_data[k].keys = replay_events[i].keys
            /\ \A k \in 1..(Len(cursor_data) - 1) :
                 RLt(cursor_data[k].time, cursor_data[k + 1].time)
            /\ (Len(replay_events) = 2
                /\ replay_events[1].time_delta = -5
                /\ replay_events[2] = Frame(10, RInt(100), RInt(100), 1)
                /\ mods = 0) =>
                   cursor_data = <<Event(RInt(10), RInt(100), RInt(100), 1)>>

\* A decoded replay with a frame of non-positive delta between two frames
\* of positive delta: two events, the second at the sum of the two deltas.
C6_Witness ==
    /\ pc = "decoded" /\ ~IsAutoOption(option)
    /\ Len(replay_events) = 3
    /\ replay_events[1].time_delta > 0
    /\ replay_events[2].time_delta < 0
    /\ replay_events[3].time_delta > 0
    /\ Len(cursor_data) = 2
    /\ cursor_data[2].time
         = RInt(replay_events[1].time_delta + replay_events[3].time_delta)

SortedByStartTime(objects) ==
    \A k \in 1..(Len(objects) - 1) : objects[k].time < objects[k + 1].time

\* C8: for every beatmap whose hit objects are in increasing start-time
\* order, generate_auto_play_cursor_data and generate_dancer_cursor_data
\* return an event list whose times are non-decreasing.
C8_SynthesizedTimesNonDecreasing ==
    (IsAutoOption(option) /\ playstyle \in {"Auto", "Dancer"}
     /\ SortedByStartTime(hit_objects)) =>
        /\ pc # "failed"
        /\ pc = "resources" => NonDecreasing(cursor_data)

\* The whole milliseconds from a slider's start to its end.
SliderHoldTimes(obj) ==
    {RInt(t) : t \in obj.time..(obj.time + RTrunc(obj.slider_duration))}

\* In the list, from the first pressed event at the slider's start up to the
\* first release later than its end, no event has keys = 0.
NoReleaseWithinSlider(data, obj) ==
    LET slider_end == RAdd(RInt(obj.time), obj.slider_duration)
        pressed == {k \in 1..Len(data) : data[k].keys # 0 /\ data[k].time = RInt(obj.time)}
        first_pressed == CHOOSE k \in pressed : \A j \in pressed : k <= j
        releases == {k \in 1..Len(data) :
                        /\ k > first_pressed
                        /\ data[k].keys = 0
                        /\ RLt(slider_end, data[k].time)}
        release == CHOOSE k \in releases : \A j \in releases : k <= j
    IN  /\ pressed # {}
        /\ releases # {}
        /\ \A k \in first_pressed..(release - 1) : data[k].keys # 0

DancerLoaded ==
    /\ pc \in {"resources", "decoded", "ready"}
    /\ IsAutoOption(option)
    /\ playstyle = "Dancer"

\* C21: in the event list of generate_dancer_cursor_data, for every slider
\* no event with keys = 0 lies between the first key-pressed event at its
\* start and the release after its end, and the sample at every time from
\* its start to its end has a held key.
C21_DancerHoldsKeyOnSliders ==
    DancerLoaded =>
        \A i \in 1..Len(hit_objects) :
            hit_objects[i].object_name = "slider" =>
                /\ NoReleaseWithinSlider(cursor_data, hit_objects[i])
                /\ \A t \in SliderHoldTimes(hit_objects[i]) :
                     LET r == interpolate_cursor_position(cursor_data, t, apply_smoothing)
                     IN  r.raised = "" /\ r.keys # 0

\* The part of C21 about sampling alone.
DancerSamplesHeldOnSliders ==
    DancerLoaded =>
        \A i \in 1..Len(hit_objects) :
            hit_objects[i].object_name = "slider" =>
                \A t \in SliderHoldTimes(hit_objects[i]) :
                    interpolate_cursor_position(cursor_data, t, apply_smoothing).keys # 0

\* C28: on every non-empty sequence with non-decreasing times, two adjacent
\* events of the same time included, and for every query time,
\* interpolate_cursor_position returns a cursor state and raises nothing.
C28_SamplerTotal ==
    (Sampled /\ Len(cursor_data) > 0 /\ NonDecreasing(cursor_data)) =>
        sampled.result.raised = ""

\* The same when no two adjacent events have the same time.
SamplerTotalOnIncreasing ==
    (Sampled /\ Len(cursor_data) > 0
     /\ \A k \in 1..(Len(cursor_data) - 1) :
            RLt(cursor_data[k].time, cursor_data[k + 1].time)) =>
        sampled.result.raised = ""

\* C29: for a sequence of at least two events and a query time earlier
\* than the first event's time, interpolate_cursor_position falls through
\* and returns the x, y and keys of the last event.
C29_BeforeStartReturnsLast ==
    (Sampled /\ Len(cursor_data) >= 2 /\ RLt(sampled.t, cursor_data[1].time)) =>
        LET last_event == cursor_data[Len(cursor_data)]
        IN  sampled.result = Returned(last_event.x, last_event.y, last_event.keys)

\* The same for the sequences in time order.
OrderedBeforeStartReturnsLast ==
    (Sampled /\ Len(cursor_data) >= 2 /\ NonDecreasing(cursor_data)
     /\ RLt(sampled.t, cursor_data[1].time)) =>
        LET last_event == cursor_data[Len(cursor_data)]
        IN  sampled.result = Returned(last_event.x, last_event.y, last_event.keys)

(***************************************************************************)
(* Properties of apply_hard_rock_mod (SpecHR)                              *)
(***************************************************************************)
\* C10: apply_hard_rock_mod replaces the y of every hit object and of every
\* slider control point by OSU_PLAYFIELD_HEIGHT - y, applying it twice
\* restores each y, and x, start times, slider durations and timing points
\* are unchanged.
C10_HardRockFlip ==
    /\ [][/\ Len(hit_objects') = Len(hit_objects)
          /\ timing_points' = timing_points
          /\ \A i \in 1..Len(hit_objects) :
               LET old == hit_objects[i]
                   new == hit_objects'[i]
               IN  /\ new.y = OSU_PLAYFIELD_HEIGHT - old.y
                   /\ new.x = old.x
                   /\ new.time = old.time
                   /\ new.slider_duration = old.slider_duration
                   /\ Len(new.curve_points) = Len(old.curve_points)
                   /\ \A k \in 1..Len(old.curve_points) :
                        /\ new.curve_points[k].x = old.curve_points[k].x
                        /\ new.curve_points[k].y
                             = RSub(RInt(OSU_PLAYFIELD_HEIGHT), old.curve_points[k].y)]_vars
    /\ [](pc = "parsed" =>
            /\ timing_points = original.timing_points
            /\ flips % 2 = 0 => hit_objects = original.hit_objects)

\* The transform was applied twice to a beatmap whose ys are not all on the
\* midline, and the ys are the parsed ones again.
C10_Witness ==
    /\ pc = "parsed"
    /\ flips = 2
    /\ hit_objects = original.hit_objects
    /\ hit_objects[1].y # OSU_PLAYFIELD_HEIGHT - hit_objects[1].y
    /\ hit_objects[2].curve_points[1].y
         # RSub(RInt(OSU_PLAYFIELD_HEIGHT), hit_objects[2].curve_points[1].y)

(***************************************************************************)
(* Beatmap construction: Beatmap.__init__ on a file                        *)
(***************************************************************************)
\* The values of a TimingPoints line: uninherited, inherited, and a line that
\* stops after beat_length.
UninheritedLine(time, beat_length) ==
    <<RInt(time), RInt(beat_length), 4, 0, 0, 100, 1, 0>>

InheritedLine(time, beat_length) ==
    <<RInt(time), RInt(beat_length), 4, 0, 0, 100, 0, 0>>

ShortLine(time, beat_length) == <<RInt(time), RInt(beat_length)>>

\* TimingPoints sections in time order.
ParseTimingLines ==
    {<< >>,
     <<UninheritedLine(0, 500)>>,
     <<UninheritedLine(0, 400), InheritedLine(100, -50)>>,
     <<UninheritedLine(0, 400), InheritedLine(100, -50), UninheritedLine(200, 300)>>,
     <<UninheritedLine(0, 400), InheritedLine(100, -200), InheritedLine(300, -50)>>,
     <<InheritedLine(0, -50)>>,
     <<UninheritedLine(0, 400), UninheritedLine(5000, 250), InheritedLine(6000, -25)>>,
     <<ShortLine(0, 600), InheritedLine(250, -100)>>,
     <<UninheritedLine(0, 400), InheritedLine(100, 0)>>}

\* Difficulty sections: multiplier 1, multiplier 1.4, no SliderMultiplier.
ParseDifficulties ==
    {GameDifficulty,
     [GameDifficulty EXCEPT !["SliderMultiplier"] = Rat(14, 10)],
     [k \in {"CircleSize", "SliderTickRate"} |-> GameDifficulty[k]]}

\* The values of HitObjects lines: a circle (type 1), and a linear slider
\* (type 2) with its curve, slides and length.
CircleLine(x, y, time) == <<x, y, time, 1, 0>>

SliderLine(time, slides, length) ==
    <<100, 100, time, 2, 0,
      [slider_type |-> "L", curve_points |-> <<Point(RInt(200), RInt(100))>>],
      slides, length>>

ParseHitObjectLines ==
    {<<CircleLine(100, 100, 20), SliderLine(time, slides, length)>> :
        time \in {50, 250, 1000}, slides \in {1, 2}, length \in {RInt(100), Rat(75, 2)}}

\* The file before Beatmap(file_path): the beatmap variables hold its
\* sections, the lists hold the lines as parse_beatmap first collects them.
InitParse ==
    /\ general = GameGeneral
    /\ difficulty \in ParseDifficulties
    /\ timing_points \in ParseTimingLines
    /\ hit_objects \in ParseHitObjectLines
    /\ replay_events = << >>
    /\ mods = 0
    /\ option = ""
    /\ playstyle = ""
    /\ playstyle_choice = ""
    /\ cursor_data = << >>
    /\ apply_smoothing = FALSE
    /\ current_time = 0
    /\ cursor_pos = NoneCursor
    /\ previous_key = 0
    /\ hitted_objects = {}
    /\ active_sliders = << >>
    /\ ticks = << >>
    /\ score = InitialScore
    /\ audio_offset = 0
    /\ clock = 0
    /\ pc = "file"
    /\ calls = << >>
    /\ started = << >>
    /\ notifications = << >>
    /\ sampled = NoSample
    /\ original = << >>
    /\ flips = 0
    /\ slider_path_cache = << >>
    /\ slider_sampled_path_cache = << >>

\* Beatmap.__init__: parse_beatmap replaces the collected lines by the parsed
\* timing points and hit objects; an exception leaves no Beatmap.
Beatmap_init ==
    /\ pc = "file"
    /\ \E beatmap \in {parse_beatmap([general |-> general, difficulty |-> difficulty,
                                      timing_points |-> timing_points,
                                      hit_objects |-> hit_objects])} :
         IF beatmap.raised # ""
         THEN /\ pc' = "failed"
              /\ UNCHANGED <<hit_objects, timing_points>>
         ELSE /\ pc' = "constructed"
              /\ hit_objects' = beatmap.hit_objects
              /\ timing_points' = beatmap.timing_points
    /\ UNCHANGED <<general, difficulty, loadVars, gameVars, historyVars, skinVars>>

NextParse == Beatmap_init

SpecParse == InitParse /\ [][NextParse]_vars

(***************************************************************************)
(* Properties of beatmap construction (SpecParse)                          *)
(***************************************************************************)
\* The timing points at or before a time, by kind, and the latest of a set.
PointsUpTo(time, uninherited) ==
    {k \in 1..Len(timing_points) :
        /\ RLe(timing_points[k].time, RInt(time))
        /\ (timing_points[k].uninherited # 0) = uninherited}

LatestOf(points) == CHOOSE k \in points : \A j \in points : j <= k

TimingPointsSorted ==
    \A k \in 1..(Len(timing_points) - 1) :
        RLe(timing_points[k].time, timing_points[k + 1].time)

\* C11: for a slider starting at T, with the timing points sorted by time,
\* slider_duration is (length * beat_length * slides) / (SliderMultiplier *
\* SV * 100), where beat_length is that of the last uninherited point with
\* time <= T (500 if none) and SV is -100 / beat_length of the last inherited
\* point with time <= T (1 if none), each found independently of the other
\* kind; beat_length 500, multiplier 1, SV 1, length 100, slides 1 give 500.
C11_SliderDuration ==
    (pc = "constructed" /\ TimingPointsSorted) =>
        \A i \in 1..Len(hit_objects) :
            hit_objects[i].object_name = "slider" =>
                LET obj == hit_objects[i]
                    uninherited == PointsUpTo(obj.time, TRUE)
                    inherited == PointsUpTo(obj.time, FALSE)
                    beat_length ==
                        IF uninherited = {} THEN RInt(500)
                        ELSE timing_points[LatestOf(uninherited)].beat_length
                    sv == IF inherited = {} THEN RInt(1)
                          ELSE RDiv(RInt(-100), timing_points[LatestOf(inherited)].beat_length)
                    multiplier == DifficultyGet(difficulty, "SliderMultiplier", RInt(1))
                IN  /\ obj.slider_duration
                         = RDiv(RMul(RMul(obj.length, beat_length), RInt(obj.slides)),
                                RMul(RMul(multiplier, sv), RInt(100)))
                    /\ (beat_length = RInt(500) /\ multiplier = RInt(1) /\ sv = RInt(1)
                        /\ obj.length = RInt(100) /\ obj.slides = 1) =>
                           obj.slider_duration = RInt(500)

\* A constructed slider that starts after an uninherited point, a later
\* inherited point and a still later uninherited point: the beat length is
\* the later uninherited point's and the velocity the inherited point's.
C11_Witness ==
    /\ pc = "constructed"
    /\ Len(hit_objects) = 2
    /\ hit_objects[2].object_name = "slider"
    /\ hit_objects[2].slides = 2
    /\ Len(timing_points) = 3
    /\ PointsUpTo(hit_objects[2].time, TRUE) = {1, 3}
    /\ PointsUpTo(hit_objects[2].time, FALSE) = {2}
    /\ timing_points[3].beat_length = RInt(300)
    /\ timing_points[2].beat_length = RInt(-50)
    /\ DifficultyGet(difficulty, "SliderMultiplier", RInt(0)) = RInt(1)
    /\ hit_objects[2].length = RInt(100)
    /\ hit_objects[2].slider_duration = RInt(300)

(***************************************************************************)
(* main: load_resources, initialize_game_state and the frame loop          *)
(***************************************************************************)
\* The beatmap files given to main: a good one, one without SliderTickRate,
\* one without SliderMultiplier, one with a hit-object line of type 4 (no
\* circle, slider or spinner bit), one without AudioFilename, and one whose
\* slider lies on an inherited point of beat length 0.
MainHitObjectLines == <<SliderLine(200, 1, RInt(100)), CircleLine(200, 100, 400)>>

MainFile(section, difficulty_keys, points, lines) ==
    [general |-> section,
     difficulty |-> [k \in difficulty_keys |-> GameDifficulty[k]],
     timing_points |-> points,
     hit_objects |-> lines]

MainFiles ==
    {MainFile(GameGeneral, DOMAIN GameDifficulty, <<UninheritedLine(0, 100)>>,
              MainHitObjectLines),
     MainFile(GameGeneral, DOMAIN GameDifficulty \ {"SliderTickRate"},
              <<UninheritedLine(0, 100)>>, MainHitObjectLines),
     MainFile(GameGeneral, DOMAIN GameDifficulty \ {"SliderMultiplier"},
              <<UninheritedLine(0, 100)>>, MainHitObjectLines),
     MainFile(GameGeneral, DOMAIN GameDifficulty, <<UninheritedLine(0, 100)>>,
              <<CircleLine(100, 100, 200), <<100, 100, 400, 4, 0>>>>),
     MainFile(<< >>, DOMAIN GameDifficulty, <<UninheritedLine(0, 100)>>,
              MainHitObjectLines),
     MainFile(GameGeneral, DOMAIN GameDifficulty,
              <<UninheritedLine(0, 100), InheritedLine(100, 0)>>, MainHitObjectLines)}

\* The answers to the prompts of load_resources, with the replay file's
\* frames and mods when a replay path is given.
MainAnswers ==
    {[option |-> "auto", playstyle_choice |-> c, replay_events |-> << >>, mods |-> 0] :
        c \in {"1", "2", "3"}}
    \cup {[option |-> "replay.osr", playstyle_choice |-> "", replay_events |-> r,
           mods |-> m] :
            r \in {FramesOf(HoldAt(175, 225, 100)), FramesOf(HoldAt(350, 400, 100))},
            m \in {0, ModHardRock}}

\* main before load_resources: the beatmap variables hold the file.
InitMain ==
    /\ \E file \in MainFiles :
        /\ general = file.general
        /\ difficulty = file.difficulty
        /\ timing_points = file.timing_points
        /\ hit_objects = file.hit_objects
    /\ \E answers \in MainAnswers :
        /\ option = answers.option
        /\ playstyle_choice = answers.playstyle_choice
        /\ replay_events = answers.replay_events
        /\ mods = answers.mods
    /\ playstyle = ""
    /\ cursor_data = << >>
    /\ apply_smoothing = FALSE
    /\ current_time = 0
    /\ cursor_pos = NoneCursor
    /\ previous_key = 0
    /\ hitted_objects = {}
    /\ active_sliders = << >>
    /\ ticks = << >>
    /\ score = InitialScore
    /\ audio_offset = 0
    /\ clock = 0
    /\ pc = "start"
    /\ calls = << >>
    /\ started = << >>
    /\ notifications = << >>
    /\ sampled = NoSample
    /\ original = << >>
    /\ flips = 0
    /\ slider_path_cache = << >>
    /\ slider_sampled_path_cache = << >>

\* audio_filename is None never.
AudioFilenameMissing_never(section) == FALSE

\* beatmap.general.get('AudioFilename', None) is None.
AudioFilenameMissing(section) == "AudioFilename" \notin DOMAIN section

\* The playstyle token load_resources derives from the choice, "" when the
\* choice is invalid or not asked for.
PlaystyleOf(choice) ==
    IF choice = "1" THEN "Auto" ELSE IF choice = "2" THEN "Dancer" ELSE ""

\* How load_resources ends, as main uses its result: "resources" when it
\* returns the resources, "aborted" when it returns None (main then fails on
\* resources['audio_file_path'] before anything else is done), "failed" when
\* it raises: from Beatmap(), from generate_auto_replay, or from
\* apply_hard_rock_mod.
LoadOutcome(parse_raised, auto, token, generate_raised, hard_rock_raised, section) ==
    IF parse_raised # "" THEN "failed"
    ELSE IF auto /\ token = "" THEN "aborted"
    ELSE IF generate_raised # "" \/ hard_rock_raised # "" THEN "failed"
    ELSE IF AudioFilenameMissing(section) THEN "aborted"
    ELSE "resources"

\* apply_hard_rock_mod as load_resources calls it: KeyError on an object
\* without 'object_name'.
HardRockRaised(src, objects) ==
    IF /\ ~IsAutoOption(src.option)
       /\ BitAnd(src.mods, ModHardRock) # 0
       /\ \E i \in 1..Len(objects) : objects[i].object_name = ""
    THEN "KeyError" ELSE ""

\* main, line 408: resources = load_resources(window).
LoadResources ==
    /\ pc = "start"
    /\ \E setting \in DancerSettings :
       \E beatmap \in {parse_beatmap([general |-> general, difficulty |-> difficulty,
                                      timing_points |-> timing_points,
                                      hit_objects |-> hit_objects])} :
       \E token \in {PlaystyleOf(playstyle_choice)} :
       \E src \in {[option |-> option, playstyle |-> token,
                    replay_events |-> replay_events, mods |-> mods]} :
       \E hard_rock_raised \in {IF beatmap.raised # "" THEN ""
                                ELSE HardRockRaised(src, beatmap.hit_objects)} :
       \E generated \in {IF beatmap.raised # "" \/ (IsAutoOption(option) /\ token = "")
                         THEN [raised |-> "", cursor_data |-> << >>]
                         ELSE GeneratedCursorData(src, beatmap.hit_objects,
                                  IF token = "Dancer" THEN setting[1] ELSE RInt(0),
                                  IF token = "Dancer" THEN setting[2] ELSE FALSE)} :
       \E loaded \in {IF beatmap.raised # "" \/ hard_rock_raised # ""
                         \/ generated.raised # ""
                      THEN [hit_objects |-> beatmap.hit_objects,
                            difficulty |-> beatmap.difficulty]
                      ELSE LoadedBeatmap(src, beatmap.hit_objects, beatmap.difficulty)} :
       \E outcome \in {LoadOutcome(beatmap.raised, IsAutoOption(option), token,
                                   generated.raised, hard_rock_raised, general)} :
        /\ pc' = outcome
        /\ hit_objects' = IF beatmap.raised # "" THEN hit_objects ELSE loaded.hit_objects
        /\ difficulty' = loaded.difficulty
        /\ timing_points' = IF beatmap.raised # "" THEN timing_points
                            ELSE beatmap.timing_points
        /\ cursor_data' = IF outcome = "resources" THEN generated.cursor_data ELSE << >>
        /\ playstyle' = token
        /\ apply_smoothing' = ~(IsAutoOption(option) /\ token = "Auto")
    /\ UNCHANGED <<general, replay_events, mods, option, playstyle_choice, gameVars,
                   historyVars, skinVars>>

\* main, line 414: game_state = initialize_game_state(resources, start_time).
initialize_game_state ==
    /\ pc = "resources"
    /\ cursor_data' = ShiftedCursorData(option,
                          DecodedCursorData(option, cursor_data, replay_events, mods))
    /\ current_time' = 0
    /\ cursor_pos' = NoneCursor
    /\ previous_key' = 0
    /\ hitted_objects' = {}
    /\ active_sliders' = << >>
    /\ score' = InitialScore
    /\ audio_offset' = 0
    /\ pc' = "running"
    /\ UNCHANGED <<beatmapVars, replay_events, mods, option, playstyle, playstyle_choice,
                   apply_smoothing, ticks, clock, calls, started, notifications,
                   historyVars, skinVars>>

NextMain == LoadResources \/ initialize_game_state \/ RenderLoop \/ KeyUp \/ KeyDown

SpecMain == InitMain /\ [][NextMain]_vars

(***************************************************************************)
(* Properties of startup (SpecMain)                                        *)
(***************************************************************************)
\* update_game_state has been called: it left a cursor sample or raised.
TickRan == pc = "crashed" \/ (pc = "running" /\ cursor_pos # NoneCursor)

\* The constructed beatmap lacks a Difficulty key compute_slider_ticks reads,
\* or has a hit object whose type had none of the circle, slider and spinner
\* bits.
DefectiveBeatmap ==
    \/ "SliderMultiplier" \notin DOMAIN difficulty
    \/ "SliderTickRate" \notin DOMAIN difficulty
    \/ \E i \in 1..Len(hit_objects) : hit_objects[i].object_name = ""

\* C12: a beatmap that lacks SliderMultiplier or SliderTickRate, or has a
\* hit-object line without a circle, slider or spinner bit, fails at
\* construction: no simulation tick ever runs on it.
C12_FailFastAtLoad == TickRan => ~DefectiveBeatmap

\* The playstyle choice is invalid, or the beatmap has no AudioFilename.
ConfigurationError ==
    \/ IsAutoOption(option) /\ playstyle_choice \notin {"1", "2"}
    \/ "AudioFilename" \notin DOMAIN general

\* C13: with an invalid playstyle choice or a beatmap without AudioFilename,
\* startup ends before the loop: initialize_game_state is not reached, so no
\* game state is created and update_game_state is never called; and
\* generate_auto_replay raises ValueError for a playstyle token other than
\* 'Auto' and 'Dancer'.
C13_ConfigurationRejected ==
    /\ ConfigurationError =>
          /\ pc \in {"start", "failed", "aborted"}
          /\ ~TickRan
          /\ calls = << >> /\ hitted_objects = {} /\ score = InitialScore
    /\ pc = "aborted" =>
          \A token \in {"", "auto", "Other"} :
              generate_auto_replay(hit_objects, token, RInt(0), FALSE).raised
                  = "ValueError"

\* load_resources returned None for a replay on a beatmap without
\* AudioFilename, after the beatmap was constructed.
C13_Witness ==
    /\ pc = "aborted"
    /\ "AudioFilename" \notin DOMAIN general
    /\ ~IsAutoOption(option)
    /\ Len(hit_objects) = 2
    /\ hit_objects[1].object_name = "slider"

(***************************************************************************)
(* The default skin's slider renderer (skins/default/slider_render.py).    *)
(* The OpenGL calls draw what the path functions computed and change no    *)
(* program state; the path functions, the two module-level caches and the  *)
(* exceptions are modelled.  A sample on a curve whose coordinates are     *)
(* irrational (an arc) or irrelevant here (a spline) is kept as the record  *)
(* of what it was computed from.                                           *)
(***************************************************************************)

\* num_samples of the segment samplers, and of sample_path.
SegmentSamples == 100
PathSamples == 1000

\* [start_point] + curve_points.
FullCurvePoints(hit_object) ==
    <<Point(RInt(hit_object.x), RInt(hit_object.y))>> \o hit_object.curve_points

\* True for a point given by coordinates, false for a recorded curve sample.
HasCoordinates(p) == "x" \in DOMAIN p

\* Sample k (from 0) of linear_interpolate(p0, p1, num_samples):
\* np.linspace(0, 1, num_samples)[k] is k / (num_samples - 1), and 0 for a
\* single sample.
LinearSample(p0, p1, k, num_samples) ==
    LET t == IF num_samples = 1 THEN RInt(0) ELSE Rat(k, num_samples - 1)
    IN  IF HasCoordinates(p0) /\ HasCoordinates(p1)
        THEN Point(RAdd(p0.x, RMul(RSub(p1.x, p0.x), t)),
                   RAdd(p0.y, RMul(RSub(p1.y, p0.y), t)))
        ELSE [from |-> p0, to |-> p1, t |-> t]

linear_interpolate(p0, p1, num_samples) ==
    [j \in 1..num_samples |-> LinearSample(p0, p1, j - 1, num_samples)]

generate_linear_path(points) == points

\* perp_slope1 / perp_slope2 of sample_perfect_segment for the chord a -> b:
\* None for a horizontal chord, 0 for a vertical one (and for a = b).
PerpSlope(a, b) ==
    IF RSub(b.x, a.x) # RInt(0)
    THEN LET slope == RDiv(RSub(b.y, a.y), RSub(b.x, a.x))
         IN  IF slope # RInt(0)
             THEN [none |-> FALSE, value |-> RDiv(RInt(-1), slope)]
             ELSE [none |-> TRUE, value |-> RInt(0)]
    ELSE [none |-> FALSE, value |-> RInt(0)]

Midpoint(a, b) == Point(RDiv(RAdd(a.x, b.x), RInt(2)), RDiv(RAdd(a.y, b.y), RInt(2)))

\* The centre sample_perfect_segment solves for; found is false on the
\* branches that print a warning and return [].
ArcCentre(p0, p1, p2) ==
    LET perp_slope1 == PerpSlope(p0, p1)
        perp_slope2 == PerpSlope(p1, p2)
        mid1 == Midpoint(p0, p1)
        mid2 == Midpoint(p1, p2)
        none == [found |-> FALSE, x |-> RInt(0), y |-> RInt(0)]
    IN  IF ~perp_slope1.none /\ ~perp_slope2.none
        THEN IF perp_slope1.value = perp_slope2.value THEN none
             ELSE LET center_x ==
                          RDiv(RAdd(RSub(RMul(perp_slope1.value, mid1.x),
                                         RMul(perp_slope2.value, mid2.x)),
                                    RSub(mid2.y, mid1.y)),
                               RSub(perp_slope1.value, perp_slope2.value))
                  IN  [found |-> TRUE, x |-> center_x,
                       y |-> RAdd(RMul(perp_slope1.value, RSub(center_x, mid1.x)), mid1.y)]
        ELSE IF perp_slope1.none
        THEN IF ~perp_slope2.none
             THEN [found |-> TRUE, x |-> mid1.x,
                   y |-> RAdd(RMul(perp_slope2.value, RSub(mid1.x, mid2.x)), mid2.y)]
             ELSE none
        ELSE [found |-> TRUE, x |-> mid2.x,
              y |-> RAdd(RMul(perp_slope1.value, RSub(mid2.x, mid1.x)), mid1.y)]

\* sample_perfect_segment: [] when no centre is found, else num_samples
\* points on the arc from p0 to p2 about the centre (sample k at the angle
\* start_angle + k * angle_diff / (num_samples - 1)).
ArcAbout(p0, p1, p2, centre, num_samples) ==
    IF ~centre.found THEN << >>
    ELSE [j \in 1..num_samples |->
             [arc |-> <<p0, p1, p2>>, center |-> Point(centre.x, centre.y), k |-> j - 1]]

sample_perfect_segment(p0, p1, p2, num_samples) ==
    CHOOSE arc \in {ArcAbout(p0, p1, p2, centre, num_samples) :
                       centre \in {ArcCentre(p0, p1, p2)}} : TRUE

\* The while loop of generate_perfect_path from index i (from 1).
RECURSIVE PerfectFrom(_, _)
PerfectFrom(points, i) ==
    IF i + 2 > Len(points) THEN << >>
    ELSE sample_perfect_segment(points[i], points[i + 1], points[i + 2], SegmentSamples)
             \o PerfectFrom(points, i + 2)

generate_perfect_path(points) ==
    IF Len(points) < 3 THEN generate_linear_path(points) ELSE PerfectFrom(points, 1)

\* The while loop of generate_bezier_path (degree 3) from index i (from 1),
\* and the linear remainder.
RECURSIVE BezierFrom(_, _)
BezierFrom(points, i) ==
    IF i + 3 <= Len(points)
    THEN [j \in 1..SegmentSamples |->
             [bezier |-> SubSeq(points, i, i + 3), k |-> j - 1]]
             \o BezierFrom(points, i + 3)
    ELSE IF i < Len(points)
    THEN linear_interpolate(points[i], points[i + 1], SegmentSamples)
    ELSE << >>

generate_bezier_path(points) ==
    IF Len(points) < 4 THEN generate_linear_path(points) ELSE BezierFrom(points, 1)

RECURSIVE CatmullFrom(_, _)
CatmullFrom(points, i) ==
    IF i + 3 > Len(points) THEN << >>
    ELSE [j \in 1..SegmentSamples |->
             [catmull |-> SubSeq(points, i, i + 3), k |-> j - 1]]
             \o CatmullFrom(points, i + 1)

generate_catmull_path(points) ==
    IF Len(points) < 4 THEN generate_linear_path(points) ELSE CatmullFrom(points, 1)

\* generate_slider_path: slider_type is the upper-cased first letter.
generate_slider_path(curve_points, slider_type) ==
    CASE slider_type = "L" -> generate_linear_path(curve_points)
      [] slider_type = "B" -> generate_bezier_path(curve_points)
      [] slider_type = "C" -> generate_catmull_path(curve_points)
      [] slider_type = "P" -> generate_perfect_path(curve_points)
      [] OTHER -> generate_linear_path(curve_points)

\* sample_path for a non-empty path.
sample_path(path, num_samples) ==
    IF Len(path) >= num_samples THEN SubSeq(path, 1, num_samples)
    ELSE IF Len(path) - 1 = 0 THEN path
    ELSE LET total_segments == Len(path) - 1
             quotient == num_samples \div total_segments
             samples_per_segment == IF quotient < 1 THEN 1 ELSE quotient
             produced == total_segments * samples_per_segment
         IN  [j \in 1..(IF produced < num_samples THEN produced ELSE num_samples) |->
                 LinearSample(path[((j - 1) \div samples_per_segment) + 1],
                              path[((j - 1) \div samples_per_segment) + 2],
                              (j - 1) % samples_per_segment, samples_per_segment)]

\* draw_slider_path once path is known: the caches after the call.
\* hit_object['sampled_path'] is the very list stored in
\* slider_sampled_path_cache.
CachePath(hit_object, path, path_cache, sampled_cache) ==
    LET cache_key == hit_object.time
        paths == IF cache_key \in DOMAIN path_cache THEN path_cache
                 ELSE (cache_key :> path) @@ path_cache
    IN  IF path = << >>
        THEN [raised |-> "", path_cache |-> paths, sampled_cache |-> sampled_cache]
        ELSE [raised |-> "", path_cache |-> paths,
              sampled_cache |->
                  IF cache_key \in DOMAIN sampled_cache THEN sampled_cache
                  ELSE (cache_key :> sample_path(path, PathSamples)) @@ sampled_cache]

draw_slider_path(hit_object, path_cache, sampled_cache) ==
    CHOOSE caches \in
        {CachePath(hit_object, path, path_cache, sampled_cache) :
            path \in {IF hit_object.time \in DOMAIN path_cache
                      THEN path_cache[hit_object.time]
                      ELSE generate_slider_path(FullCurvePoints(hit_object),
                                                hit_object.slider_type)}} : TRUE

\* path[index] with Python's indexing (from 0, negative from the end):
\* the position from 1, or 0 where Python raises IndexError.
PyIndex(path, index) ==
    IF index >= 0 /\ index < Len(path) THEN index + 1
    ELSE IF index < 0 /\ -index <= Len(path) THEN Len(path) + index + 1
    ELSE 0

\* slider.get('slides', 1) on the active slider's dict.
SlidesOf(slider) == IF "slides" \in DOMAIN slider THEN slider.slides ELSE 1

\* get_slider_ball_position: the index into the sampled path, the two
\* samples the ball lies between and local_t.
get_slider_ball_position(slider, hit_object, time, sampled_cache) ==
    LET slider_duration == RSub(slider.end_time, RInt(slider.start_time))
        elapsed_time == RSub(RInt(time), RInt(slider.start_time))
        t == IF RLe(slider_duration, RInt(0)) THEN RInt(1)
             ELSE RMax(RInt(0), RMin(RDiv(elapsed_time, slider_duration), RInt(1)))
        cache_key == hit_object.time
        start == Point(RInt(hit_object.x), RInt(hit_object.y))
    IN  IF cache_key \notin DOMAIN sampled_cache
        THEN [raised |-> "KeyError", index |-> 0, from |-> start, to |-> start,
              local_t |-> RInt(0)]
        ELSE LET path == sampled_cache[cache_key]
                 path_progress == RMul(t, RInt(SlidesOf(slider)))
                 progress == RSub(path_progress, RInt(RTrunc(path_progress)))
                 scaled == RMul(progress, RInt(Len(path) - 1))
                 index == IF RTrunc(scaled) < Len(path) - 2 THEN RTrunc(scaled)
                          ELSE Len(path) - 2
             IN  IF path = << >>
                 THEN [raised |-> "", index |-> 0, from |-> start, to |-> start,
                       local_t |-> RInt(0)]
                 ELSE IF PyIndex(path, index) = 0 \/ PyIndex(path, index + 1) = 0
                 THEN [raised |-> "IndexError", index |-> index, from |-> start,
                       to |-> start, local_t |-> RInt(0)]
                 ELSE [raised |-> "", index |-> index,
                       from |-> path[PyIndex(path, index)],
                       to |-> path[PyIndex(path, index + 1)],
                       local_t |-> RSub(scaled, RInt(index))]

\* draw_slider_object after draw_slider_path: the caches after the call and
\* the exception raised.
DrawBall(hit_object, sliders, time, drawn) ==
    LET active == {k \in 1..Len(sliders) : sliders[k].start_time = hit_object.time}
    IN  IF hit_object.time \notin DOMAIN drawn.sampled_cache
        THEN [drawn EXCEPT !.raised = "KeyError"]
        ELSE IF active = {} THEN drawn
        ELSE [drawn EXCEPT
                 !.raised = get_slider_ball_position(sliders[CHOOSE k \in active : TRUE],
                                                     hit_object, time,
                                                     drawn.sampled_cache).raised]

draw_slider_object(hit_object, sliders, time, path_cache, sampled_cache) ==
    CHOOSE result \in
        {DrawBall(hit_object, sliders, time, drawn) :
            drawn \in {draw_slider_path(hit_object, path_cache, sampled_cache)}} : TRUE

\* The sliders drawn, all starting at (0, 0) at time 200 and lasting 100 ms:
\* the perfect-circle sliders over one or two control points of a small
\* grid, and every type over one control point and over three.
GridCoordinates == {0, 50, 100}

GridPoints == {Point(RInt(x), RInt(y)) : x \in GridCoordinates, y \in GridCoordinates}

ShortCurvePoints ==
    {<<a>> : a \in GridPoints}
        \cup {<<Point(RInt(100), RInt(0)), Point(RInt(100), RInt(100)), b>> : b \in GridPoints}

DrawnSlider(slider_type, curve_points) ==
    Slider(0, 0, 200, slider_type, curve_points, 1, RInt(100), RInt(100))

\* Sliders with a repeat: the path is run there and back.
RepeatSliders ==
    {Slider(0, 0, 200, "L", <<Point(RInt(100), RInt(0))>>, slides, RInt(100), RInt(100)) :
        slides \in {2, 3}}

\* Sliders over many control points, 10 apart on a line: Catmull-Rom paths
\* of 6 and 11 segments and Bezier paths over 34, 6 and 8 points.
LongSliders ==
    {DrawnSlider(run[1], [k \in 1..run[2] |-> Point(RInt(10 * k), RInt(0))]) :
        run \in {<<"C", 8>>, <<"C", 13>>, <<"B", 33>>, <<"B", 5>>, <<"B", 7>>}}

DrawnSliders ==
    {DrawnSlider("P", <<a, b>>) : a \in GridPoints, b \in GridPoints}
        \cup {DrawnSlider(slider_type, curve_points) :
                 slider_type \in {"L", "B", "C", "P"}, curve_points \in ShortCurvePoints}
        \cup RepeatSliders
        \cup LongSliders

\* The frame times at which the slider is drawn.
DrawTimes == {100, 200, 250, 300}

InitDraw ==
    /\ general = GameGeneral
    /\ hit_objects \in {<<slider>> : slider \in DrawnSliders}
    /\ difficulty = GameDifficulty
    /\ timing_points = GameTimingPoints
    /\ original = [hit_objects |-> hit_objects, timing_points |-> timing_points]
    /\ flips = 0
    /\ slider_path_cache = << >>
    /\ slider_sampled_path_cache = << >>
    /\ replay_events = << >>
    /\ mods = 0
    /\ option = "auto"
    /\ playstyle = "auto"
    /\ playstyle_choice = "1"
    /\ cursor_data = << >>
    /\ apply_smoothing = FALSE
    /\ current_time = 0
    /\ cursor_pos = NoneCursor
    /\ previous_key = 0
    /\ hitted_objects = {}
    /\ active_sliders = << >>
    /\ ticks = << >>
    /\ score = InitialScore
    /\ audio_offset = 0
    /\ clock = 0
    /\ pc = "running"
    /\ calls = << >>
    /\ started = << >>
    /\ notifications = << >>
    /\ sampled = NoSample

\* The ActiveSlider process_slider_start registers for the slider: the dict
\* has the keys object, start_time, end_time, ticks, missed_ticks,
\* total_ticks and slider_path.
ActiveSliderOf(hit_object) ==
    [object |-> 1, start_time |-> hit_object.time,
     end_time |-> RAdd(RInt(hit_object.time), hit_object.slider_duration),
     missed_ticks |-> 0, total_ticks |-> 0]

\* One frame's draw_slider_object call for the slider, at a frame time not
\* before the last one; the slider is active or not (it can be active from
\* the head's hit window to its end time).
DrawSliderFrame ==
    /\ pc = "running"
    /\ \E now \in DrawTimes, active \in BOOLEAN :
        /\ now >= current_time
        /\ active => now >= hit_objects[1].time - 100 /\ now <= hit_objects[1].time + 100
        /\ \E sliders \in {IF active THEN <<ActiveSliderOf(hit_objects[1])>> ELSE << >>} :
           \E drawn \in {draw_slider_object(hit_objects[1], sliders, now, slider_path_cache,
                                            slider_sampled_path_cache)} :
               /\ slider_path_cache' = drawn.path_cache
               /\ slider_sampled_path_cache' = drawn.sampled_cache
               /\ pc' = IF drawn.raised # "" THEN "crashed" ELSE "running"
               /\ active_sliders' = sliders
        /\ current_time' = now
    /\ UNCHANGED <<beatmapVars, loadVars, hitted_objects, ticks, score, calls, started,
                   notifications, cursor_pos, previous_key, audio_offset, clock,
                   historyVars>>

NextDraw == DrawSliderFrame

SpecDraw == InitDraw /\ [][NextDraw]_vars

(***************************************************************************)
(* Properties of slider drawing (SpecDraw)                                 *)
(***************************************************************************)

\* The three points of a perfect-circle slider are colinear (the cross
\* product of p0p1 and p0p2 is zero), or its bisectors give no centre.
DegeneratePerfect(hit_object) ==
    /\ hit_object.slider_type = "P"
    /\ Len(hit_object.curve_points) = 2
    /\ LET points == FullCurvePoints(hit_object)
       IN  \/ RSub(RMul(RSub(points[2].x, points[1].x), RSub(points[3].y, points[1].y)),
                   RMul(RSub(points[2].y, points[1].y), RSub(points[3].x, points[1].x)))
                  = RInt(0)
           \/ ~ArcCentre(points[1], points[2], points[3]).found

\* C14: a perfect-circle slider whose three points are colinear, or whose
\* bisectors are parallel, gets the linear path between its first and last
\* point, a non-empty sampled path is cached for it, and drawing it never
\* raises.
C14_DegenerateFallsBack ==
    DegeneratePerfect(hit_objects[1]) =>
        /\ pc # "crashed"
        /\ hit_objects[1].time \in DOMAIN slider_path_cache =>
            /\ slider_path_cache[hit_objects[1].time]
                   = <<FullCurvePoints(hit_objects[1])[1], FullCurvePoints(hit_objects[1])[3]>>
            /\ hit_objects[1].time \in DOMAIN slider_sampled_path_cache
            /\ slider_sampled_path_cache[hit_objects[1].time] # << >>

\* The index the ball's position is read at when the path of n samples is
\* run hit_object.slides times between the slider's start and its end.
RepeatedBallIndex(hit_object, time, n) ==
    LET duration == hit_object.slider_duration
        t == RMax(RInt(0), RMin(RDiv(RSub(RInt(time), RInt(hit_object.time)), duration),
                                RInt(1)))
        path_progress == RMul(t, RInt(hit_object.slides))
        loop_progress == RSub(path_progress, RInt(RTrunc(path_progress)))
    IN  RTrunc(RMul(loop_progress, RInt(n - 1)))

\* The slider was drawn as active in this frame, with a sampled path.
BallDrawn ==
    /\ pc = "running"
    /\ Len(active_sliders) = 1
    /\ hit_objects[1].time \in DOMAIN slider_sampled_path_cache
    /\ Len(slider_sampled_path_cache[hit_objects[1].time]) >= 2
    /\ RLt(RInt(0), hit_objects[1].slider_duration)

BallOf(hit_object) ==
    get_slider_ball_position(active_sliders[1], hit_object, current_time,
                             slider_sampled_path_cache)

\* C22: for an active slider whose object has repeat count r,
\* get_slider_ball_position at time T reads the sampled path at
\* floor(((t * r) mod 1) * (N - 1)) with t the clamped fraction of the
\* slider's duration, so that for r >= 2 the path is run r times.
C22_BallRunsPathPerRepeat ==
    BallDrawn =>
        BallOf(hit_objects[1]).index =
            RepeatedBallIndex(hit_objects[1], current_time,
                              Len(slider_sampled_path_cache[hit_objects[1].time]))

\* The same for the sliders without a repeat.
BallRunsPathOnce ==
    (BallDrawn /\ hit_objects[1].slides = 1) =>
        BallOf(hit_objects[1]).index =
            RepeatedBallIndex(hit_objects[1], current_time,
                              Len(slider_sampled_path_cache[hit_objects[1].time]))

\* The point a sample stands for: a linear sample at t = 0 or t = 1 between
\* two recorded curve samples is the first or the second of them.
PointOf(sample) ==
    IF {"from", "to", "t"} \subseteq DOMAIN sample
    THEN IF sample.t = RInt(0) THEN sample.from
         ELSE IF sample.t = RInt(1) THEN sample.to ELSE sample
    ELSE sample

\* The sampled path starts at the path's first point and ends at its last.
KeepsEnds(path, sampled_path) ==
    /\ sampled_path # << >>
    /\ PointOf(sampled_path[1]) = path[1]
    /\ PointOf(sampled_path[Len(sampled_path)]) = path[Len(path)]

\* C24: for every generated slider path of at least 2 points, whatever its
\* length, sample_path(path, 1000) starts at the path's first point and
\* ends at its last point.
C24_SampledPathKeepsEnds ==
    \A cache_key \in DOMAIN slider_sampled_path_cache :
        Len(slider_path_cache[cache_key]) >= 2 =>
            KeepsEnds(slider_path_cache[cache_key], slider_sampled_path_cache[cache_key])

\* The same for the paths sample_path spreads at least 2 samples a segment on.
ShortPathKeepsEnds ==
    \A cache_key \in DOMAIN slider_sampled_path_cache :
        (Len(slider_path_cache[cache_key]) >= 2
         /\ Len(slider_path_cache[cache_key]) <= (PathSamples \div 2) + 1) =>
            KeepsEnds(slider_path_cache[cache_key], slider_sampled_path_cache[cache_key])

\* A Bezier slider of at least 4 points whose path has been generated.
BezierDrawn ==
    /\ hit_objects[1].slider_type = "B"
    /\ Len(FullCurvePoints(hit_objects[1])) >= 4
    /\ hit_objects[1].time \in DOMAIN slider_path_cache

\* Segment m of the path (its SegmentSamples samples) is the cubic over the
\* four control points from position first on.
CubicOver(path, m, points, first) ==
    \A j \in 1..SegmentSamples :
        LET sample == path[SegmentSamples * (m - 1) + j]
        IN  /\ "bezier" \in DOMAIN sample
            /\ sample.bezier = SubSeq(points, first, first + 3)

\* The path is made of the cubics over disjoint groups of 4 control points
\* and, for the points left over, a linear segment from the first to the
\* last of them.
DisjointChunks(points, path) ==
    LET groups == Len(points) \div 4
        left == Len(points) % 4
    IN  /\ Len(path) = SegmentSamples * (groups + (IF left > 0 THEN 1 ELSE 0))
        /\ \A m \in 1..groups : CubicOver(path, m, points, 4 * (m - 1) + 1)
        /\ left > 0 =>
              /\ path[SegmentSamples * groups + 1] = points[4 * groups + 1]
              /\ path[Len(path)] = points[Len(points)]

\* C25: generate_bezier_path splits the control points into consecutive
\* groups of 4 sharing no point, samples each as a cubic of 100 samples and
\* covers the up to 3 points left over by a linear segment, so that every
\* control point belongs to exactly one sampled segment.
C25_BezierChunksDisjoint ==
    BezierDrawn =>
        DisjointChunks(FullCurvePoints(hit_objects[1]),
                       slider_path_cache[hit_objects[1].time])

\* Every control point is met by the path: it is a control point of one of
\* the cubics or an end of the linear segment.
BezierPathMeetsEveryPoint ==
    BezierDrawn =>
        LET points == FullCurvePoints(hit_objects[1])
            path == slider_path_cache[hit_objects[1].time]
        IN  \A n \in 1..Len(points) :
                \E j \in 1..Len(path) :
                    \/ path[j] = points[n]
                    \/ /\ "bezier" \in DOMAIN path[j]
                       /\ \E c \in 1..4 : path[j].bezier[c] = points[n]
====
